---- MODULE Spec2Model ----
(***************************************************************************)
(* A model of pigeon_sonatta: the per-track note state machine of          *)
(* audio.py (AudioGenerator), the scale arithmetic of scales.py and the    *)
(* decode / display / processing pipeline of video.py (VideoManager).      *)
(*                                                                         *)
(* Metric values, thresholds and the sensitivity are Python floats in the  *)
(* source.  Here a metric value or threshold is the integer m with the     *)
(* real value m / MetricDen, and a sensitivity is the integer s with the   *)
(* real value s / SensDen; the arithmetic on them is exact.                *)
(***************************************************************************)
EXTENDS Integers, Sequences, FiniteSets, TLC

\* ------------------------------------------------------------------------
\* Representation of the floats: the resolution of the model
\* ------------------------------------------------------------------------
MetricDen == 1000
SensDen == 10

\* ------------------------------------------------------------------------
\* config.py: AudioConfig, VideoConfig
\* ------------------------------------------------------------------------
NOTE_ON_THRESHOLD == MetricDen \div 10      \* 0.1
NOTE_OFF_THRESHOLD == MetricDen \div 20     \* 0.05
VELOCITY_CHANGE_THRESHOLD == 10
ROOT_NOTE == 60
SENSITIVITY == 1 * SensDen                  \* 1.0
MaxSensitivity == 10 * SensDen              \* set_sensitivity: min(10.0, ...)
MaxVelocity == 127
PanicChannels == 16

\* VideoConfig: the capacities of the three queues.  The program's values are
\* 20, 200 and 50; the model's queues are this small so that a full queue is
\* reached within a few frames.
DISPLAY_QUEUE_SIZE == 1
PROCESSING_QUEUE_SIZE == 2
UI_UPDATE_QUEUE_SIZE == 1

\* ------------------------------------------------------------------------
\* Small helpers
\* ------------------------------------------------------------------------
Min2(a, b) == IF a <= b THEN a ELSE b
Max2(a, b) == IF a >= b THEN a ELSE b
Abs(a) == IF a >= 0 THEN a ELSE 0 - a
Range(s) == {s[i] : i \in DOMAIN s}

\* a dict with key k removed / set
DictDel(d, k) == [x \in (DOMAIN d) \ {k} |-> d[x]]
DictSet(d, k, v) == [x \in (DOMAIN d) \cup {k} |-> IF x = k THEN v ELSE d[x]]
EmptyDict == [x \in {} |-> 0]

\* ------------------------------------------------------------------------
\* scales.py
\* ------------------------------------------------------------------------
ScaleNames == {"Major", "Pentatonic Major", "Chromatic"}

SCALES(name) ==
    CASE name = "Major" -> <<0, 2, 4, 5, 7, 9, 11>>
      [] name = "Pentatonic Major" -> <<0, 2, 4, 7, 9>>
      [] name = "Chromatic" -> <<0, 1, 2, 3, 4, 5, 6, 7, 8, 9, 10, 11>>
      [] OTHER -> <<>>

\* Python's sorted() on a list of integers (insertion sort).
RECURSIVE InsertSorted(_, _)
InsertSorted(s, x) ==
    IF s = <<>> THEN <<x>>
    ELSE IF x < Head(s) THEN <<x>> \o s
    ELSE <<Head(s)>> \o InsertSorted(Tail(s), x)

RECURSIVE sorted(_)
sorted(s) == IF s = <<>> THEN <<>> ELSE InsertSorted(sorted(Tail(s)), Head(s))

\* The inner "for interval in intervals" loop of generate_scale_notes for one
\* octave, from interval index i on: the notes appended, in order.  The loop
\* skips a note below min_note and breaks at the first note above max_note.
RECURSIVE OctaveNotes(_, _, _, _, _, _)
OctaveNotes(root_note, intervals, octave, min_note, max_note, i) ==
    IF i > Len(intervals) THEN <<>>
    ELSE LET note == root_note + (octave * 12) + intervals[i]
         IN  IF min_note <= note /\ note <= max_note
             THEN <<note>> \o OctaveNotes(root_note, intervals, octave,
                                          min_note, max_note, i + 1)
             ELSE IF note > max_note THEN <<>>
             ELSE OctaveNotes(root_note, intervals, octave,
                              min_note, max_note, i + 1)

\* The "while True" loop of generate_scale_notes from the given octave on.
RECURSIVE ScaleLoop(_, _, _, _, _, _)
ScaleLoop(root_note, intervals, start_octave, octave, min_note, max_note) ==
    LET added == OctaveNotes(root_note, intervals, octave, min_note, max_note, 1)
        notes_added == added # <<>>
    IN  IF ~notes_added /\ octave > start_octave THEN added
        ELSE IF root_note + ((octave + 1) * 12) > max_note THEN added
        ELSE added \o ScaleLoop(root_note, intervals, start_octave,
                                octave + 1, min_note, max_note)

generate_scale_notes(root_note, scale_name, note_range) ==
    LET name == IF scale_name \in ScaleNames THEN scale_name ELSE "Major"
        intervals == SCALES(name)
        min_note == note_range[1]
        max_note == note_range[2]
        d == min_note - root_note
        start_octave == (d \div 12) + (IF d % 12 > 0 THEN 1 ELSE 0)
    IN  sorted(ScaleLoop(root_note, intervals, start_octave, start_octave,
                         min_note, max_note))

\* ------------------------------------------------------------------------
\* audio.py: AudioGenerator, the pure parts
\* ------------------------------------------------------------------------
\* list(range(min_note, max_note + 1))
ChromaticRange(min_note, max_note) ==
    [i \in 1..Max2(0, max_note - min_note + 1) |-> min_note + i - 1]

\* note_map is a dict region index -> note over range(total_regions).  With an
\* empty scale_notes and an empty chromatic fallback Python raises
\* ZeroDivisionError; no settings of the model reach that (min <= max).
_create_note_map(root_note, scale_name, note_range, total_regions) ==
    LET found == generate_scale_notes(root_note, scale_name, note_range)
        scale_notes == IF found = <<>>
                       THEN ChromaticRange(note_range[1], note_range[2])
                       ELSE found
    IN  [i \in 0..(total_regions - 1) |-> scale_notes[(i % Len(scale_notes)) + 1]]

\* Python's round() of num / den for num >= 0: to the nearest integer, a tie
\* to the even one.
RoundHalfEven(num, den) ==
    LET q == num \div den
        r == num % den
    IN  IF 2 * r < den THEN q
        ELSE IF 2 * r > den THEN q + 1
        ELSE IF q % 2 = 0 THEN q ELSE q + 1

\* metric_to_velocity with round() for int().
metric_to_velocity_rounded(m, s) ==
    LET velocity == RoundHalfEven(m * MaxVelocity * s, MetricDen * SensDen)
    IN  Max2(0, Min2(MaxVelocity, velocity))

\* int(brightness * 127 * sensitivity), then max(0, min(127, velocity)).
\* brightness = m / MetricDen >= 0 and sensitivity = s / SensDen >= 0, so
\* int() (truncation towards zero) is the floor of the exact product.
metric_to_velocity(m, s) ==
    LET velocity == (m * MaxVelocity * s) \div (MetricDen * SensDen)
    IN  Max2(0, Min2(MaxVelocity, velocity))

Ev(action, note, velocity) ==
    [action |-> action, note |-> note, velocity |-> velocity]

\* A decision that re-triggers as soon as the velocity change reaches the
\* threshold (>= for >).
RegionDecisionRetriggerInclusive(st, note, velocity, should_play, should_stop) ==
    LET is_playing == note \in DOMAIN st.notes
    IN  IF should_play /\ ~is_playing
        THEN [events |-> Append(st.events, Ev("note_on", note, velocity)),
              notes |-> DictSet(st.notes, note, velocity)]
        ELSE IF should_play /\ is_playing
        THEN LET current_velocity == st.notes[note]
             IN  IF Abs(velocity - current_velocity) >= VELOCITY_CHANGE_THRESHOLD
                 THEN [events |-> st.events
                                   \o <<Ev("note_off", note, current_velocity),
                                        Ev("note_on", note, velocity)>>,
                       notes |-> DictSet(st.notes, note, velocity)]
                 ELSE st
        ELSE IF should_stop /\ is_playing
        THEN [events |-> Append(st.events, Ev("note_off", note, st.notes[note])),
              notes |-> DictDel(st.notes, note)]
        ELSE st

\* The on/off/update decision of generate_midi_events for one region, given
\* should_play and should_stop: st is [events, notes] (midi_events so far,
\* current_notes so far).
RegionDecision(st, note, velocity, should_play, should_stop) ==
    LET is_playing == note \in DOMAIN st.notes
    IN  IF should_play /\ ~is_playing
        THEN [events |-> Append(st.events, Ev("note_on", note, velocity)),
              notes |-> DictSet(st.notes, note, velocity)]
        ELSE IF should_play /\ is_playing
        THEN LET current_velocity == st.notes[note]
             IN  IF Abs(velocity - current_velocity) > VELOCITY_CHANGE_THRESHOLD
                 THEN [events |-> st.events
                                   \o <<Ev("note_off", note, current_velocity),
                                        Ev("note_on", note, velocity)>>,
                       notes |-> DictSet(st.notes, note, velocity)]
                 ELSE st
        ELSE IF should_stop /\ is_playing
        THEN [events |-> Append(st.events, Ev("note_off", note, st.notes[note])),
              notes |-> DictDel(st.notes, note)]
        ELSE st

\* RegionStep with the on threshold inclusive (>= for >).
RegionStepOnInclusive(st, region_index, metric_value, nm, s, on, off) ==
    IF region_index \notin DOMAIN nm THEN st
    ELSE RegionDecision(st, nm[region_index],
                        metric_to_velocity(metric_value, s),
                        metric_value >= on, metric_value <= off)

\* RegionStep with the off threshold exclusive (< for <=).
RegionStepOffExclusive(st, region_index, metric_value, nm, s, on, off) ==
    IF region_index \notin DOMAIN nm THEN st
    ELSE RegionDecision(st, nm[region_index],
                        metric_to_velocity(metric_value, s),
                        metric_value > on, metric_value < off)

\* The body of the loop of generate_midi_events for one region.
RegionStep(st, region_index, metric_value, nm, s, on, off) ==
    IF region_index \notin DOMAIN nm THEN st
    ELSE RegionDecision(st, nm[region_index],
                        metric_to_velocity(metric_value, s),
                        metric_value > on, metric_value <= off)

\* generate_midi_events: metric_values is a dict over range(n) built in
\* ascending region order (analyze_frame), here a sequence mv with mv[i + 1]
\* the value of region i.  The state after the regions 0 .. k-1.
RECURSIVE GenerateUpTo(_, _, _, _, _, _, _)
GenerateUpTo(mv, k, nm, cn, s, on, off) ==
    IF k = 0 THEN [events |-> <<>>, notes |-> cn]
    ELSE RegionStep(GenerateUpTo(mv, k - 1, nm, cn, s, on, off),
                    k - 1, mv[k], nm, s, on, off)

generate_midi_events(mv, nm, cn, s, on, off) ==
    GenerateUpTo(mv, Len(mv), nm, cn, s, on, off)

\* ------------------------------------------------------------------------
\* audio.py: AudioGenerator as a record, and its methods as record updates
\* ------------------------------------------------------------------------
\* AudioGenerator.__init__ with a non-null midi_out, for the given grid.
NewGenerator(width, height, note_range, scale_name, root_note) ==
    [grid_width |-> width,
     grid_height |-> height,
     total_regions |-> width * height,
     note_range |-> note_range,
     scale_name |-> scale_name,
     root_note |-> root_note,
     sensitivity |-> SENSITIVITY,
     note_map |-> _create_note_map(root_note, scale_name, note_range,
                                   width * height),
     current_notes |-> EmptyDict,
     snapshot |-> EmptyDict,
     is_initialized |-> TRUE,
     midi_out |-> TRUE,
     on_threshold |-> NOTE_ON_THRESHOLD,
     off_threshold |-> NOTE_OFF_THRESHOLD]

\* The "with self.state_lock" block of set_scale.
set_scale_locked(g, scale_name, root_note) ==
    [g EXCEPT !.scale_name = scale_name,
              !.root_note = root_note,
              !.note_map = _create_note_map(root_note, scale_name,
                                            g.note_range, g.total_regions)]

\* set_grid_size with the note map built before total_regions is updated.
set_grid_size_stale(g, width, height) ==
    [g EXCEPT !.grid_width = width,
              !.grid_height = height,
              !.total_regions = width * height,
              !.note_map = _create_note_map(g.root_note, g.scale_name,
                                            g.note_range, g.total_regions)]

\* The "with self.state_lock" block of set_grid_size.
set_grid_size_locked(g, width, height) ==
    [g EXCEPT !.grid_width = width,
              !.grid_height = height,
              !.total_regions = width * height,
              !.note_map = _create_note_map(g.root_note, g.scale_name,
                                            g.note_range, width * height)]

\* The "with self.state_lock" block of set_note_range.
set_note_range_locked(g, min_note, max_note) ==
    [g EXCEPT !.note_range = <<min_note, max_note>>,
              !.note_map = _create_note_map(g.root_note, g.scale_name,
                                            <<min_note, max_note>>,
                                            g.total_regions)]

\* set_sensitivity: clamped to [0.0, 10.0].
set_sensitivity(g, s) ==
    [g EXCEPT !.sensitivity = Max2(0, Min2(MaxSensitivity, s))]

\* The note_off calls of stop_all_notes / cleanup: one per key of
\* current_notes, with the stored velocity, when midi_out is not None.  The
\* calls are made in dict order; the model keeps them as a set.
FlushOffs(g) ==
    IF g.midi_out
    THEN {Ev("note_off", n, g.current_notes[n]) : n \in DOMAIN g.current_notes}
    ELSE {}

\* stop_all_notes: current_notes.clear(); the snapshot is left as it is.
stop_all_notes(g) == [g EXCEPT !.current_notes = EmptyDict]

\* The locked block of cleanup: current_notes and the snapshot are cleared.
cleanup_locked(g) ==
    [g EXCEPT !.current_notes = EmptyDict, !.snapshot = EmptyDict]

\* The setters as whole calls: the locked block, then stop_all_notes.
set_scale(g, scale_name, root_note) ==
    stop_all_notes(set_scale_locked(g, scale_name, root_note))

set_grid_size(g, width, height) ==
    stop_all_notes(set_grid_size_locked(g, width, height))

set_note_range(g, min_note, max_note) ==
    stop_all_notes(set_note_range_locked(g, min_note, max_note))

\* A generate_midi_events that publishes the snapshot inside the loop, after
\* the first region only.
generate_locked_partial(g, mv) ==
    LET r == generate_midi_events(mv, g.note_map, g.current_notes,
                                  g.sensitivity, g.on_threshold,
                                  g.off_threshold)
        first == GenerateUpTo(mv, Min2(1, Len(mv)), g.note_map,
                              g.current_notes, g.sensitivity, g.on_threshold,
                              g.off_threshold)
    IN  [gen |-> [g EXCEPT !.current_notes = r.notes,
                           !.snapshot = first.notes],
         events |-> r.events]

\* The locked body of generate_midi_events on generator g: the new generator
\* (current_notes updated, snapshot published) and the events returned.
generate_locked(g, mv) ==
    LET r == generate_midi_events(mv, g.note_map, g.current_notes,
                                  g.sensitivity, g.on_threshold,
                                  g.off_threshold)
    IN  [gen |-> [g EXCEPT !.current_notes = r.notes, !.snapshot = r.notes],
         events |-> r.events]

\* ------------------------------------------------------------------------
\* The MIDI sink (pygame.midi.Output), as the generator's calls see it
\* ------------------------------------------------------------------------
\* open: close() has not been called.  sounding: note -> velocity of the
\* notes whose last write was a note_on.  A write to a closed sink raises.
NewSink == [open |-> TRUE, sounding |-> EmptyDict]

SinkWrite(sk, ev) ==
    IF ~sk.open THEN sk
    ELSE IF ev.action = "note_on"
    THEN [sk EXCEPT !.sounding = DictSet(sk.sounding, ev.note, ev.velocity)]
    ELSE [sk EXCEPT !.sounding = DictDel(sk.sounding, ev.note)]

\* Of the note_off calls of a flush, those that reach the sink.
WrittenOffs(g, sk) == IF sk.open THEN FlushOffs(g) ELSE {}

SinkWriteAll(sk, evs) ==
    IF ~sk.open THEN sk
    ELSE [sk EXCEPT !.sounding =
             [n \in (DOMAIN sk.sounding) \ {e.note : e \in evs}
                 |-> sk.sounding[n]]]

\* ------------------------------------------------------------------------
\* Bounds and input sets of the model
\* ------------------------------------------------------------------------
\* Grids of the model have at most MaxRegions regions (the program: 1..127
\* in each dimension).
MaxRegions == 2

GridSizes == {wh \in (1..MaxRegions) \X (1..MaxRegions) :
                 wh[1] * wh[2] <= MaxRegions}

\* Metric values of a region: 0.0, the off threshold, inside the dead-band,
\* the on threshold, and two values above it (0.2 and 0.9: velocities 25 and
\* 114 at sensitivity 1.0).
MetricValues == {0,
                 NOTE_OFF_THRESHOLD,
                 (NOTE_OFF_THRESHOLD + NOTE_ON_THRESHOLD) \div 2,
                 NOTE_ON_THRESHOLD,
                 2 * NOTE_ON_THRESHOLD,
                 9 * NOTE_ON_THRESHOLD}

\* The metric values of the interleaved specification: silent and loud.
CoarseMetricValues == {0, 9 * NOTE_ON_THRESHOLD}

ModelScales == {"Major", "Chromatic"}
ModelRoots == {60, 62}
ModelRanges == {<<60, 61>>, <<60, 62>>}
\* Sensitivities passed to set_sensitivity: 0.0, 0.5, 1.0, 2.0, 10.0 and one
\* above the clamp.
ModelSensitivities == {0, SensDen \div 2, SENSITIVITY, 2 * SENSITIVITY,
                       MaxSensitivity, MaxSensitivity + SensDen}

\* The metric values of the velocity specification: k / VelMetricPoints for
\* k in 0 .. VelMetricPoints.
VelMetricPoints == 20

VelocityMetricValues ==
    {(k * MetricDen) \div VelMetricPoints : k \in 0..VelMetricPoints}

\* The grid of the stop specification has StopRegions regions, one note each.
StopRegions == 3

\* The video has MaxFrames frames; container.decode() then ends.
MaxFrames == 3

\* All sequences of length n over S (the metric_values of a frame).
SeqsOfLen(S, n) == [1..n -> S]


\* ------------------------------------------------------------------------
\* State
\* ------------------------------------------------------------------------
VARIABLES
    gen,              \* the track's AudioGenerator
    genB,             \* a second AudioGenerator (note map comparison)
    sink,             \* the MIDI sink
    pPc,              \* Processing thread: where it is in process_frame
    pMetrics,         \* metric_values of the frame in hand
    pVelocities,      \* the velocity computed for each region of the frame
    pEvents,          \* midi_events of the frame in hand, those not yet
                      \*   written by play_midi_events
    frameStartNotes,  \* current_notes when generate_midi_events took the lock
    frameStale,       \* that frame was evaluated between a setter's locked
                      \*   block and its stop_all_notes, with a note of the
                      \*   old note map still in current_notes
    uiPc,             \* UI thread: where it is in a generator call
    uiLog             \* what the last stop_all_notes / cleanup wrote

VARIABLES
    display_queue,    \* VideoManager.display_queue; 0 is the sentinel None
    processing_queue, \* VideoManager.processing_queue
    ui_update_queue,  \* VideoManager.ui_update_queue
    stop_event,
    pause_event,
    _is_playing,
    container,        \* the PyAV container is open
    decPc,            \* Decoder thread: where it is in _decoder_loop
    decFrame,         \* the number of the frame the Decoder holds
    decDrop,          \* what became of that frame at a full processing queue
    dispPc,           \* Display thread: where it is in _display_loop
    dispFrame,        \* the frame the Display thread holds
    procPc,           \* Processing thread: where it is in _processing_loop
    procFrame,        \* the frame last passed to the frame callback, 0: none
    uiFrame,          \* the frame last put on the UI-update queue, 0: none
    callbackRaised,   \* the frame callback has raised for some frame
    cPc,              \* UI thread: where it is in VideoManager.cleanup
    left              \* the state each finished cleanup() call left behind

VARIABLES
    oldDecoders,      \* the Decoder threads of earlier sessions still alive
    position          \* the frames of the container before its read position

VARIABLES
    frameLog,         \* the process_frame calls so far: metric values, events
    writeLog          \* per process_frame call, the sink writes tried: event, raised

VARIABLES
    tracks,           \* TrackManager.tracks: the MidiTrack objects, in order
    sinks,            \* the pygame.midi.Output objects, by number from 1
    manager_midi_out, \* TrackManager.midi_out: a sink's number, 0 for None
    routeLog,         \* what the last routed frame did at each track
    system_midi_out,  \* AudioSystemManager.midi_out: a sink's number, 0 for None
    swap,             \* what the last replacement of the MIDI output did
    destroyLog        \* what the last destruction of tracks did, per track

genVars == <<gen, genB, sink, pPc, pMetrics, pVelocities, pEvents,
             frameStartNotes, frameStale, uiPc, uiLog>>

videoVars == <<display_queue, processing_queue, ui_update_queue, stop_event,
               pause_event, _is_playing, container, decPc, decFrame, decDrop,
               dispPc, dispFrame, procPc, cPc, left, procFrame, uiFrame,
               callbackRaised, oldDecoders, position>>

logVars == <<frameLog, writeLog>>

managerVars == <<tracks, sinks, manager_midi_out, routeLog, system_midi_out,
                 swap, destroyLog>>

trackVars == <<logVars, managerVars>>

vars == <<genVars, videoVars, trackVars>>

NoLog == [notes |-> EmptyDict, offs |-> {}, panic |-> 0, closed |-> FALSE]

DefaultGenerator ==
    NewGenerator(MaxRegions, 1, <<60, 62>>, "Major", ROOT_NOTE)

\* The generator state around a given AudioGenerator, nothing in hand.
GenInitWith(g) ==
    /\ gen = g
    /\ genB = g
    /\ sink = NewSink
    /\ pPc = "idle"
    /\ pMetrics = <<>>
    /\ pVelocities = <<>>
    /\ pEvents = <<>>
    /\ frameStartNotes = EmptyDict
    /\ frameStale = FALSE
    /\ uiPc = "idle"
    /\ uiLog = NoLog

GenInit == GenInitWith(DefaultGenerator)

\* The model has MaxTracks tracks at most and NumSinks MIDI outputs.
MaxTracks == 2

NumSinks == 2

ClosedSink == [open |-> FALSE, sounding |-> EmptyDict]

\* No replacement of the MIDI output yet.  Of a replacement: the sink the
\* tracks had and the one they get, the <<track, note>> pairs active when
\* the call began and when the references were rebound, the pairs whose
\* note_off the call wrote to a sink, and the tracks it left not rebound.
NoSwap == [done |-> FALSE, old |-> 0, new |-> 0, before |-> {}, active |-> {},
           offs |-> {}, torn |-> {}]

\* No frame has been processed.  TrackManager.__init__: no track, the MIDI
\* output that AudioSystemManager opened.
TrackInit ==
    /\ frameLog = <<>>
    /\ writeLog = <<>>
    /\ tracks = <<>>
    /\ sinks = [k \in 1..NumSinks |-> IF k = 1 THEN NewSink ELSE ClosedSink]
    /\ manager_midi_out = 1
    /\ routeLog = <<>>
    /\ system_midi_out = 1
    /\ swap = NoSwap
    /\ destroyLog = <<>>

\* VideoManager.__init__: empty queues, both events clear, no thread.
VideoInit ==
    /\ display_queue = <<>>
    /\ processing_queue = <<>>
    /\ ui_update_queue = <<>>
    /\ stop_event = FALSE
    /\ pause_event = FALSE
    /\ _is_playing = FALSE
    /\ container = FALSE
    /\ decPc = "none"
    /\ decFrame = 0
    /\ decDrop = "none"
    /\ dispPc = "none"
    /\ dispFrame = 0
    /\ procPc = "none"
    /\ procFrame = 0
    /\ uiFrame = 0
    /\ callbackRaised = FALSE
    /\ cPc = "idle"
    /\ left = <<>>
    /\ oldDecoders = 0
    /\ position = 0

\* ------------------------------------------------------------------------
\* Processing thread: AudioGenerator.process_frame, called by the frame
\* callback
\* ------------------------------------------------------------------------
\* process_frame up to the end of analyze_frame.  With is_initialized false
\* process_frame returns at once (no step).
P_Analyze(Values) ==
    /\ pPc = "idle"
    /\ gen.is_initialized
    /\ \E mv \in SeqsOfLen(Values, gen.grid_width * gen.grid_height) :
          pMetrics' = mv
    /\ pPc' = "generate"
    /\ UNCHANGED <<gen, genB, sink, pVelocities, pEvents, frameStartNotes,
                   frameStale, uiPc, uiLog>>
    /\ UNCHANGED <<videoVars, trackVars>>

\* generate_midi_events: the whole loop under state_lock.
P_Generate ==
    /\ pPc = "generate"
    /\ LET r == generate_locked(gen, pMetrics)
       IN  /\ gen' = r.gen
           /\ pEvents' = r.events
    /\ pVelocities' = [i \in DOMAIN pMetrics |->
                          metric_to_velocity(pMetrics[i], gen.sensitivity)]
    /\ frameStartNotes' = gen.current_notes
    /\ frameStale' = /\ uiPc = "flush"
                     /\ \E n \in DOMAIN gen.current_notes :
                           \A i \in DOMAIN gen.note_map : gen.note_map[i] # n
    /\ pPc' = "play"
    /\ UNCHANGED <<genB, sink, pMetrics, uiPc, uiLog>>
    /\ UNCHANGED <<videoVars, trackVars>>

\* play_midi_events: the guard "not is_initialized or not midi_out"; with
\* it passed and no event the loop ends at once.  The frame's metric values
\* are dead from here on.
P_PlayCheck ==
    /\ pPc = "play"
    /\ IF ~gen.is_initialized \/ ~gen.midi_out \/ pEvents = <<>>
       THEN /\ pPc' = "idle"
            /\ pEvents' = <<>>
       ELSE /\ pPc' = "write"
            /\ pEvents' = pEvents
    /\ pMetrics' = <<>>
    /\ pVelocities' = <<>>
    /\ frameStartNotes' = EmptyDict
    /\ frameStale' = FALSE
    /\ UNCHANGED <<gen, genB, sink, uiPc, uiLog>>
    /\ UNCHANGED <<videoVars, trackVars>>

\* play_midi_events: one iteration of the loop.  With midi_out None, or the
\* sink closed, the write raises and the exception is logged.
P_Write ==
    /\ pPc = "write"
    /\ sink' = IF gen.midi_out THEN SinkWrite(sink, Head(pEvents)) ELSE sink
    /\ pEvents' = Tail(pEvents)
    /\ pPc' = IF Tail(pEvents) = <<>> THEN "idle" ELSE "write"
    /\ UNCHANGED <<gen, genB, pMetrics, pVelocities, frameStartNotes,
                   frameStale, uiPc, uiLog>>
    /\ UNCHANGED <<videoVars, trackVars>>

\* ------------------------------------------------------------------------
\* UI thread: the calls on the generator
\* ------------------------------------------------------------------------
UiFrame ==
    /\ UNCHANGED <<genB, pPc, pMetrics, pVelocities, pEvents,
                   frameStartNotes, frameStale>>
    /\ UNCHANGED <<videoVars, trackVars>>

\* A generator that cleanup released is no longer called (the track drops it).
UiIdle == uiPc = "idle"

U_SetScale(Scales, Roots) ==
    /\ UiIdle
    /\ \E sc \in Scales, r \in Roots :
          gen' = set_scale_locked(gen, sc, r)
    /\ uiPc' = "flush"
    /\ UNCHANGED <<sink, uiLog>>
    /\ UiFrame

U_SetGridSize ==
    /\ UiIdle
    /\ \E wh \in GridSizes : gen' = set_grid_size_locked(gen, wh[1], wh[2])
    /\ uiPc' = "flush"
    /\ UNCHANGED <<sink, uiLog>>
    /\ UiFrame

U_SetNoteRange ==
    /\ UiIdle
    /\ \E nr \in ModelRanges : gen' = set_note_range_locked(gen, nr[1], nr[2])
    /\ uiPc' = "flush"
    /\ UNCHANGED <<sink, uiLog>>
    /\ UiFrame

\* stop_all_notes, as a whole under state_lock.
StopAllNotesStep ==
    /\ sink' = SinkWriteAll(sink, FlushOffs(gen))
    /\ uiLog' = [notes |-> gen.current_notes, offs |-> WrittenOffs(gen, sink),
                 panic |-> 0, closed |-> FALSE]
    /\ gen' = stop_all_notes(gen)

\* The stop_all_notes call that ends set_scale, set_grid_size, set_note_range.
U_Flush ==
    /\ uiPc = "flush"
    /\ StopAllNotesStep
    /\ uiPc' = "idle"
    /\ UiFrame

\* stop_all_notes called on its own (pause_video, stop_video, toggle).
U_StopAllNotes ==
    /\ UiIdle
    /\ StopAllNotesStep
    /\ uiPc' = "idle"
    /\ UiFrame

U_SetSensitivity ==
    /\ UiIdle
    /\ \E s \in ModelSensitivities : gen' = set_sensitivity(gen, s)
    /\ UNCHANGED <<sink, uiPc, uiLog>>
    /\ UiFrame

\* cleanup: the locked block (note_off for every active note, clear).
U_Cleanup ==
    /\ UiIdle
    /\ sink' = SinkWriteAll(sink, FlushOffs(gen))
    /\ uiLog' = [notes |-> gen.current_notes, offs |-> WrittenOffs(gen, sink),
                 panic |-> 0, closed |-> FALSE]
    /\ gen' = cleanup_locked(gen)
    /\ uiPc' = IF gen.midi_out THEN "panic" ELSE "finish"
    /\ UiFrame

\* U_Panic going on to close() after a write raised.
U_PanicThenCloseAnyway ==
    /\ uiPc = "panic"
    /\ \E k \in 0..PanicChannels :
          /\ uiLog' = [uiLog EXCEPT !.panic = k]
          /\ sink' = IF k > 0 /\ sink.open
                     THEN [sink EXCEPT !.sounding = EmptyDict] ELSE sink
    /\ uiPc' = "close"
    /\ gen' = gen
    /\ UiFrame

\* cleanup: the loop "for channel in range(16): write_short(0xB0 | channel,
\* 123, 0)".  The write on channel k raises (k < 16) or none does (k = 16); a
\* raise skips close() and the finally clause sets midi_out to None.
U_Panic ==
    /\ uiPc = "panic"
    /\ \E k \in 0..PanicChannels :
          /\ uiLog' = [uiLog EXCEPT !.panic = k]
          /\ sink' = IF k > 0 /\ sink.open
                     THEN [sink EXCEPT !.sounding = EmptyDict] ELSE sink
          /\ IF k = PanicChannels
             THEN /\ uiPc' = "close"
                  /\ gen' = gen
             ELSE /\ uiPc' = "finish"
                  /\ gen' = [gen EXCEPT !.midi_out = FALSE]
    /\ UiFrame

\* cleanup: midi_out.close(), then the finally clause.
U_Close ==
    /\ uiPc = "close"
    /\ sink' = [sink EXCEPT !.open = FALSE]
    /\ uiLog' = [uiLog EXCEPT !.closed = TRUE]
    /\ gen' = [gen EXCEPT !.midi_out = FALSE]
    /\ uiPc' = "finish"
    /\ UiFrame

\* cleanup: is_initialized = False.
U_Finish ==
    /\ uiPc = "finish"
    /\ gen' = [gen EXCEPT !.is_initialized = FALSE]
    /\ uiPc' = "released"
    /\ UNCHANGED <<sink, uiLog>>
    /\ UiFrame

\* ------------------------------------------------------------------------
\* Two generators, each call run as a whole (the note map as a function)
\* ------------------------------------------------------------------------
MapFrame ==
    /\ UNCHANGED <<sink, pPc, pMetrics, pVelocities, pEvents,
                   frameStartNotes, frameStale, uiPc, uiLog>>
    /\ UNCHANGED <<videoVars, trackVars>>

\* One of the two generators takes the value f gives it.
OnEither(f(_)) ==
    \/ gen' = f(gen) /\ genB' = genB
    \/ genB' = f(genB) /\ gen' = gen

M_SetScale ==
    /\ \E sc \in ModelScales, r \in ModelRoots :
          LET call(g) == set_scale(g, sc, r) IN OnEither(call)
    /\ MapFrame

M_SetGridSize ==
    /\ \E wh \in GridSizes :
          LET call(g) == set_grid_size(g, wh[1], wh[2]) IN OnEither(call)
    /\ MapFrame

M_SetNoteRange ==
    /\ \E nr \in ModelRanges :
          LET call(g) == set_note_range(g, nr[1], nr[2]) IN OnEither(call)
    /\ MapFrame

\* process_frame on one of the generators.
M_ProcessFrame ==
    /\ \E mv \in SeqsOfLen(CoarseMetricValues, MaxRegions) :
          LET call(g) ==
                 generate_locked(g,
                     SubSeq(mv, 1, g.grid_width * g.grid_height)).gen
          IN  OnEither(call)
    /\ MapFrame

\* ------------------------------------------------------------------------
\* video.py: VideoManager, the Decoder thread (_decoder_loop)
\* ------------------------------------------------------------------------
GenFrame == UNCHANGED <<genVars, trackVars, oldDecoders, position>>

Alive(pc) == pc \notin {"none", "dead"}

\* queue.Queue.put_nowait: the item is added unless the queue is full.
Full(q, maxsize) == Len(q) >= maxsize

PutNowait(q, maxsize, item) == IF Full(q, maxsize) THEN q ELSE Append(q, item)

\* "for frame in self.container.decode(video=0)" and the stop check that
\* opens the loop body.  On a container that cleanup closed the generator
\* raises (the thread dies) or ends (the code after the loop runs).
D_Next ==
    /\ decPc = "loop"
    /\ IF ~container
       THEN /\ decPc' \in {"dead", "end"}
            /\ UNCHANGED <<decFrame, decDrop, position>>
       ELSE IF position = MaxFrames
       THEN /\ decPc' = "end"
            /\ UNCHANGED <<decFrame, decDrop, position>>
       ELSE /\ decFrame' = position + 1
            /\ position' = position + 1
            /\ decDrop' = "none"
            /\ decPc' = IF stop_event THEN "end" ELSE "pause"
    /\ UNCHANGED <<display_queue, processing_queue, ui_update_queue,
                   stop_event, pause_event, _is_playing, container, dispPc,
                   dispFrame, procPc, cPc, left>>
    /\ UNCHANGED <<genVars, trackVars, oldDecoders>>
    /\ UNCHANGED <<procFrame, uiFrame, callbackRaised>>

\* The pause loop without its stop check.
D_PauseIgnoringStop ==
    /\ decPc = "pause"
    /\ ~pause_event
    /\ decPc' = "put_display"
    /\ UNCHANGED <<display_queue, processing_queue, ui_update_queue,
                   stop_event, pause_event, _is_playing, container, decFrame,
                   decDrop, dispPc, dispFrame, procPc, cPc, left>>
    /\ GenFrame /\ UNCHANGED <<procFrame, uiFrame, callbackRaised>>

\* "while self.pause_event.is_set(): if self.stop_event.is_set(): break;
\* sleep": the loop is left when the pause ends or the stop flag is set; the
\* break leaves this loop only, the frame in hand is still pushed.
D_Pause ==
    /\ decPc = "pause"
    /\ ~pause_event \/ stop_event
    /\ decPc' = "put_display"
    /\ UNCHANGED <<display_queue, processing_queue, ui_update_queue,
                   stop_event, pause_event, _is_playing, container, decFrame,
                   decDrop, dispPc, dispFrame, procPc, cPc, left>>
    /\ GenFrame /\ UNCHANGED <<procFrame, uiFrame, callbackRaised>>

\* display_queue.put_nowait(frame_np); a full queue drops the frame.
D_PutDisplay ==
    /\ decPc = "put_display"
    /\ display_queue' = PutNowait(display_queue, DISPLAY_QUEUE_SIZE, decFrame)
    /\ decPc' = "put_processing"
    /\ UNCHANGED <<processing_queue, ui_update_queue, stop_event, pause_event,
                   _is_playing, container, decFrame, decDrop, dispPc,
                   dispFrame, procPc, cPc, left>>
    /\ GenFrame /\ UNCHANGED <<procFrame, uiFrame, callbackRaised>>

\* processing_queue.put(frame_np): the put that waits for a free slot.
D_PutProcessingBlocking ==
    /\ decPc = "put_processing"
    /\ ~Full(processing_queue, PROCESSING_QUEUE_SIZE)
    /\ processing_queue' = Append(processing_queue, decFrame)
    /\ decPc' = "loop"
    /\ UNCHANGED <<display_queue, ui_update_queue, stop_event, pause_event,
                   _is_playing, container, decFrame, decDrop, dispPc,
                   dispFrame, procPc, cPc, left>>
    /\ GenFrame /\ UNCHANGED <<procFrame, uiFrame, callbackRaised>>

\* processing_queue.put_nowait(frame_np); queue.Full leads to the eviction.
D_PutProcessing ==
    /\ decPc = "put_processing"
    /\ IF Full(processing_queue, PROCESSING_QUEUE_SIZE)
       THEN /\ decPc' = "evict_get"
            /\ processing_queue' = processing_queue
       ELSE /\ decPc' = "loop"
            /\ processing_queue' = Append(processing_queue, decFrame)
    /\ UNCHANGED <<display_queue, ui_update_queue, stop_event, pause_event,
                   _is_playing, container, decFrame, decDrop, dispPc,
                   dispFrame, procPc, cPc, left>>
    /\ GenFrame /\ UNCHANGED <<procFrame, uiFrame, callbackRaised>>

\* processing_queue.get_nowait() of the eviction; queue.Empty drops the new
\* frame.
D_EvictGet ==
    /\ decPc = "evict_get"
    /\ IF processing_queue = <<>>
       THEN /\ decDrop' = "empty"
            /\ decPc' = "loop"
            /\ processing_queue' = processing_queue
       ELSE /\ decDrop' = decDrop
            /\ decPc' = "evict_put"
            /\ processing_queue' = Tail(processing_queue)
    /\ UNCHANGED <<display_queue, ui_update_queue, stop_event, pause_event,
                   _is_playing, container, decFrame, dispPc, dispFrame,
                   procPc, cPc, left>>
    /\ GenFrame /\ UNCHANGED <<procFrame, uiFrame, callbackRaised>>

\* processing_queue.put_nowait(frame_np) of the eviction; queue.Full drops
\* the new frame.
D_EvictPut ==
    /\ decPc = "evict_put"
    /\ IF Full(processing_queue, PROCESSING_QUEUE_SIZE)
       THEN /\ decDrop' = "full"
            /\ processing_queue' = processing_queue
       ELSE /\ decDrop' = "enqueued"
            /\ processing_queue' = Append(processing_queue, decFrame)
    /\ decPc' = "loop"
    /\ UNCHANGED <<display_queue, ui_update_queue, stop_event, pause_event,
                   _is_playing, container, decFrame, dispPc, dispFrame,
                   procPc, cPc, left>>
    /\ GenFrame /\ UNCHANGED <<procFrame, uiFrame, callbackRaised>>

\* After the loop: _is_playing = False under the state lock.
D_End ==
    /\ decPc = "end"
    /\ _is_playing' = FALSE
    /\ decPc' = "dead"
    /\ UNCHANGED <<display_queue, processing_queue, ui_update_queue,
                   stop_event, pause_event, container, decFrame, decDrop,
                   dispPc, dispFrame, procPc, cPc, left>>
    /\ GenFrame /\ UNCHANGED <<procFrame, uiFrame, callbackRaised>>

DecoderStep ==
    \/ D_Next
    \/ D_Pause
    \/ D_PutDisplay
    \/ D_PutProcessing
    \/ D_EvictGet
    \/ D_EvictPut
    \/ D_End

\* ------------------------------------------------------------------------
\* video.py: the Display thread (_display_loop)
\* ------------------------------------------------------------------------
\* "while not self.stop_event.is_set()"
S_Loop ==
    /\ dispPc = "loop"
    /\ dispPc' = IF stop_event THEN "dead" ELSE "get"
    /\ UNCHANGED <<display_queue, processing_queue, ui_update_queue,
                   stop_event, pause_event, _is_playing, container, decPc,
                   decFrame, decDrop, dispFrame, procPc, cPc, left>>
    /\ GenFrame /\ UNCHANGED <<procFrame, uiFrame, callbackRaised>>

\* display_queue.get(timeout=0.5): an item (the sentinel ends the thread),
\* or queue.Empty after the timeout, which ends the thread when the video
\* neither plays nor is paused.
S_Get ==
    /\ dispPc = "get"
    /\ IF display_queue # <<>>
       THEN /\ display_queue' = Tail(display_queue)
            /\ dispFrame' = Head(display_queue)
            /\ dispPc' = IF Head(display_queue) = 0 THEN "dead" ELSE "put"
       ELSE /\ display_queue' = display_queue
            /\ dispFrame' = dispFrame
            /\ dispPc' = IF ~_is_playing /\ ~pause_event THEN "dead"
                         ELSE "loop"
    /\ UNCHANGED <<processing_queue, ui_update_queue, stop_event, pause_event,
                   _is_playing, container, decPc, decFrame, decDrop, procPc,
                   cPc, left>>
    /\ GenFrame /\ UNCHANGED <<procFrame, uiFrame, callbackRaised>>

\* ui_update_queue.put_nowait(photo); a full queue drops the photo.
S_Put ==
    /\ dispPc = "put"
    /\ ui_update_queue' = PutNowait(ui_update_queue, UI_UPDATE_QUEUE_SIZE,
                                    dispFrame)
    /\ dispFrame' = 0
    /\ dispPc' = "loop"
    /\ UNCHANGED <<display_queue, processing_queue, stop_event, pause_event,
                   _is_playing, container, decPc, decFrame, decDrop, procPc,
                   cPc, left>>
    /\ GenFrame /\ UNCHANGED <<procFrame, uiFrame, callbackRaised>>

DisplayStep == S_Loop \/ S_Get \/ S_Put

\* ------------------------------------------------------------------------
\* video.py: the Processing thread (_processing_loop)
\* ------------------------------------------------------------------------
\* "while not self.stop_event.is_set()"
R_Loop ==
    /\ procPc = "loop"
    /\ procPc' = IF stop_event THEN "dead" ELSE "get"
    /\ UNCHANGED <<display_queue, processing_queue, ui_update_queue,
                   stop_event, pause_event, _is_playing, container, decPc,
                   decFrame, decDrop, dispPc, dispFrame, cPc, left>>
    /\ GenFrame /\ UNCHANGED <<procFrame, uiFrame, callbackRaised>>

\* processing_queue.get(timeout=0.5)
R_Get ==
    /\ procPc = "get"
    /\ IF processing_queue # <<>>
       THEN /\ processing_queue' = Tail(processing_queue)
            /\ procPc' = IF Head(processing_queue) = 0 THEN "dead"
                         ELSE "callback"
       ELSE /\ processing_queue' = processing_queue
            /\ procPc' = IF ~_is_playing /\ ~pause_event THEN "dead"
                         ELSE "loop"
    /\ UNCHANGED <<display_queue, ui_update_queue, stop_event, pause_event,
                   _is_playing, container, decPc, decFrame, decDrop, dispPc,
                   dispFrame, cPc, left>>
    /\ GenFrame /\ UNCHANGED <<procFrame, uiFrame, callbackRaised>>

\* self.frame_callback(frame_gray) returns (or raises, which is logged).
R_Callback ==
    /\ procPc = "callback"
    /\ procPc' = "loop"
    /\ UNCHANGED <<display_queue, processing_queue, ui_update_queue,
                   stop_event, pause_event, _is_playing, container, decPc,
                   decFrame, decDrop, dispPc, dispFrame, cPc, left>>
    /\ GenFrame /\ UNCHANGED <<procFrame, uiFrame, callbackRaised>>

ProcessingStep == R_Loop \/ R_Get \/ R_Callback

\* ------------------------------------------------------------------------
\* video.py: the UI thread's calls on the VideoManager
\* ------------------------------------------------------------------------
\* open(path) on a VideoManager that has no thread yet: the cleanup() that
\* opens it finds nothing to stop, then the container is opened, both events
\* are cleared and the Decoder thread is started.
V_Open ==
    /\ cPc = "idle"
    /\ decPc = "none"
    /\ container' = TRUE
    /\ stop_event' = FALSE
    /\ pause_event' = FALSE
    /\ decPc' = "loop"
    /\ UNCHANGED <<display_queue, processing_queue, ui_update_queue,
                   _is_playing, decFrame, decDrop, dispPc, dispFrame, procPc,
                   cPc, left>>
    /\ GenFrame /\ UNCHANGED <<procFrame, uiFrame, callbackRaised>>

\* play() without the check of the container.
V_PlayWithoutContainer ==
    /\ cPc = "idle"
    /\ pause_event' = FALSE
    /\ IF ~_is_playing
       THEN /\ _is_playing' = TRUE
            /\ dispPc' = IF Alive(dispPc) THEN dispPc ELSE "loop"
            /\ procPc' = IF Alive(procPc) THEN procPc ELSE "loop"
       ELSE UNCHANGED <<_is_playing, dispPc, procPc>>
    /\ UNCHANGED <<display_queue, processing_queue, ui_update_queue,
                   stop_event, container, decPc, decFrame, decDrop, dispFrame,
                   cPc, left>>
    /\ GenFrame /\ UNCHANGED <<procFrame, uiFrame, callbackRaised>>

\* play(): nothing without a container; else the pause is ended and, when
\* not playing, the consumer threads that are not alive are started.
V_Play ==
    /\ cPc = "idle"
    /\ container
    /\ pause_event' = FALSE
    /\ IF ~_is_playing
       THEN /\ _is_playing' = TRUE
            /\ dispPc' = IF Alive(dispPc) THEN dispPc ELSE "loop"
            /\ procPc' = IF Alive(procPc) THEN procPc ELSE "loop"
       ELSE UNCHANGED <<_is_playing, dispPc, procPc>>
    /\ UNCHANGED <<display_queue, processing_queue, ui_update_queue,
                   stop_event, container, decPc, decFrame, decDrop, dispFrame,
                   cPc, left>>
    /\ GenFrame /\ UNCHANGED <<procFrame, uiFrame, callbackRaised>>

\* pause()
V_Pause ==
    /\ cPc = "idle"
    /\ pause_event' = TRUE
    /\ UNCHANGED <<display_queue, processing_queue, ui_update_queue,
                   stop_event, _is_playing, container, decPc, decFrame,
                   decDrop, dispPc, dispFrame, procPc, cPc, left>>
    /\ GenFrame /\ UNCHANGED <<procFrame, uiFrame, callbackRaised>>

\* process_ui_updates(): get_nowait until queue.Empty.
V_ProcessUiUpdates ==
    /\ cPc = "idle"
    /\ ui_update_queue' = <<>>
    /\ UNCHANGED <<display_queue, processing_queue, stop_event, pause_event,
                   _is_playing, container, decPc, decFrame, decDrop, dispPc,
                   dispFrame, procPc, cPc, left>>
    /\ GenFrame /\ UNCHANGED <<procFrame, uiFrame, callbackRaised>>

\* The model follows MaxCleanups calls of cleanup() after the open().
MaxCleanups == 2

\* stop() / cleanup(): _is_playing = False and stop_event.set() under the
\* state lock.
C_Begin ==
    /\ cPc = "idle"
    /\ decPc # "none"
    /\ Len(left) < MaxCleanups
    /\ _is_playing' = FALSE
    /\ stop_event' = TRUE
    /\ cPc' = "sentinel_display"
    /\ UNCHANGED <<display_queue, processing_queue, ui_update_queue,
                   pause_event, container, decPc, decFrame, decDrop, dispPc,
                   dispFrame, procPc, left>>
    /\ GenFrame /\ UNCHANGED <<procFrame, uiFrame, callbackRaised>>

\* display_queue.put_nowait(None); queue.Full is passed over.
C_SentinelDisplay ==
    /\ cPc = "sentinel_display"
    /\ display_queue' = PutNowait(display_queue, DISPLAY_QUEUE_SIZE, 0)
    /\ cPc' = "sentinel_processing"
    /\ UNCHANGED <<processing_queue, ui_update_queue, stop_event, pause_event,
                   _is_playing, container, decPc, decFrame, decDrop, dispPc,
                   dispFrame, procPc, left>>
    /\ GenFrame /\ UNCHANGED <<procFrame, uiFrame, callbackRaised>>

\* processing_queue.put_nowait(None); queue.Full is passed over.
C_SentinelProcessing ==
    /\ cPc = "sentinel_processing"
    /\ processing_queue' = PutNowait(processing_queue, PROCESSING_QUEUE_SIZE, 0)
    /\ cPc' = "join_decoder"
    /\ UNCHANGED <<display_queue, ui_update_queue, stop_event, pause_event,
                   _is_playing, container, decPc, decFrame, decDrop, dispPc,
                   dispFrame, procPc, left>>
    /\ GenFrame /\ UNCHANGED <<procFrame, uiFrame, callbackRaised>>

\* _join_thread: thread.join(timeout=2.0) returns when the thread has ended
\* or when the timeout has passed, whichever is first; the three joins.
C_Join ==
    /\ cPc \in {"join_decoder", "join_display", "join_processing"}
    /\ cPc' = CASE cPc = "join_decoder" -> "join_display"
                [] cPc = "join_display" -> "join_processing"
                [] cPc = "join_processing" -> "clear_display"
    /\ UNCHANGED <<display_queue, processing_queue, ui_update_queue,
                   stop_event, pause_event, _is_playing, container, decPc,
                   decFrame, decDrop, dispPc, dispFrame, procPc, left>>
    /\ GenFrame /\ UNCHANGED <<procFrame, uiFrame, callbackRaised>>

\* _clear_queue_safely on the three queues, one after the other: each loop
\* ends on the queue.Empty it sees.
C_Clear ==
    /\ cPc \in {"clear_display", "clear_processing", "clear_ui"}
    /\ display_queue' = IF cPc = "clear_display" THEN <<>> ELSE display_queue
    /\ processing_queue' = IF cPc = "clear_processing" THEN <<>>
                           ELSE processing_queue
    /\ ui_update_queue' = IF cPc = "clear_ui" THEN <<>> ELSE ui_update_queue
    /\ cPc' = CASE cPc = "clear_display" -> "clear_processing"
                [] cPc = "clear_processing" -> "clear_ui"
                [] cPc = "clear_ui" -> "close"
    /\ UNCHANGED <<stop_event, pause_event, _is_playing, container, decPc,
                   decFrame, decDrop, dispPc, dispFrame, procPc, left>>
    /\ GenFrame /\ UNCHANGED <<procFrame, uiFrame, callbackRaised>>

\* What a call of cleanup() leaves behind, read as it returns.
LeftBehind(open) ==
    [stop |-> stop_event,
     playing |-> _is_playing,
     display |-> Len(display_queue),
     processing |-> Len(processing_queue),
     ui |-> Len(ui_update_queue),
     container |-> open]

\* container.close(); container = None; cleanup() returns.
C_Close ==
    /\ cPc = "close"
    /\ container' = FALSE
    /\ left' = Append(left, LeftBehind(FALSE))
    /\ cPc' = "idle"
    /\ UNCHANGED <<display_queue, processing_queue, ui_update_queue,
                   stop_event, pause_event, _is_playing, decPc, decFrame,
                   decDrop, dispPc, dispFrame, procPc>>
    /\ GenFrame /\ UNCHANGED <<procFrame, uiFrame, callbackRaised>>

CleanupStep ==
    \/ C_SentinelDisplay
    \/ C_SentinelProcessing
    \/ C_Join
    \/ C_Clear
    \/ C_Close

\* ------------------------------------------------------------------------
\* Specifications
\* ------------------------------------------------------------------------
\* The generator with the Processing thread and the UI thread interleaved.
GenNext ==
    \/ P_Analyze(CoarseMetricValues)
    \/ P_Generate
    \/ P_PlayCheck
    \/ P_Write
    \/ U_SetScale(ModelScales, {ROOT_NOTE})
    \/ U_SetGridSize
    \/ U_SetNoteRange
    \/ U_Flush
    \/ U_StopAllNotes

\* The generator with every call run to its end before the next begins.
SeqNext ==
    \/ uiPc = "idle" /\ P_Analyze(MetricValues)
    \/ uiPc = "idle" /\ P_Generate
    \/ uiPc = "idle" /\ P_PlayCheck
    \/ uiPc = "idle" /\ P_Write
    \/ pPc = "idle" /\ U_SetScale(ModelScales, {ROOT_NOTE})
    \/ pPc = "idle" /\ U_SetGridSize
    \/ pPc = "idle" /\ U_SetNoteRange
    \/ pPc = "idle" /\ U_Flush
    \/ pPc = "idle" /\ U_StopAllNotes

\* A generator with StopRegions notes, frames interleaved with stop_all_notes
\* and cleanup.
StopGenerator ==
    NewGenerator(StopRegions, 1, <<60, 62>>, "Chromatic", ROOT_NOTE)

StopInit == GenInitWith(StopGenerator) /\ VideoInit /\ TrackInit

StopNext ==
    \/ P_Analyze(CoarseMetricValues)
    \/ P_Generate
    \/ P_PlayCheck
    \/ P_Write
    \/ U_StopAllNotes
    \/ U_Cleanup
    \/ U_Panic
    \/ U_Close
    \/ U_Finish

\* A generator of one region: frames over the metric grid, set_sensitivity
\* between frames.
VelocityGenerator == NewGenerator(1, 1, <<60, 62>>, "Major", ROOT_NOTE)

VelocityInit == GenInitWith(VelocityGenerator) /\ VideoInit /\ TrackInit

VelocityNext ==
    \/ P_Analyze(VelocityMetricValues)
    \/ P_Generate
    \/ P_PlayCheck
    \/ P_Write
    \/ pPc = "idle" /\ U_SetSensitivity
    \/ pPc = "idle" /\ U_StopAllNotes

\* Two generators, whole calls on either.
MapNext ==
    \/ M_SetScale
    \/ M_SetGridSize
    \/ M_SetNoteRange
    \/ M_ProcessFrame

\* The video pipeline: the three threads and the UI thread's calls.
VideoNext ==
    \/ DecoderStep
    \/ DisplayStep
    \/ ProcessingStep
    \/ V_Open
    \/ V_Play
    \/ V_Pause
    \/ V_ProcessUiUpdates
    \/ C_Begin
    \/ CleanupStep

Init == GenInit /\ VideoInit /\ TrackInit

Next == GenNext

Spec == Init /\ [][Next]_vars

SpecSeq == Init /\ [][SeqNext]_vars

SpecStop == StopInit /\ [][StopNext]_vars

SpecVelocity == VelocityInit /\ [][VelocityNext]_vars

SpecNoteMap == Init /\ [][MapNext]_vars

SpecVideo == Init /\ [][VideoNext]_vars

\* Every live thread is scheduled again and again, the frame callback
\* returns, and a cleanup() that has begun runs on: its joins are bounded by
\* their timeout.  The UI calls themselves are the user's and under no
\* fairness.
SpecVideoFair ==
    /\ SpecVideo
    /\ WF_vars(DecoderStep)
    /\ WF_vars(DisplayStep)
    /\ WF_vars(ProcessingStep)
    /\ WF_vars(CleanupStep)

\* ------------------------------------------------------------------------
\* Properties of one frame (generate_midi_events), under SpecSeq
\* ------------------------------------------------------------------------
\* generate_midi_events has returned for the frame in hand and
\* play_midi_events has not begun: pMetrics, frameStartNotes and pEvents are
\* the frame's input, the notes active at its start and its events.
FrameEvaluated == pPc = "play"

\* The regions of the frame that the note map sends to note n.
RegionsOf(n) ==
    {i \in DOMAIN gen.note_map : gen.note_map[i] = n /\ i + 1 <= Len(pMetrics)}

EventsOf(action, n) ==
    {k \in DOMAIN pEvents : pEvents[k].action = action /\ pEvents[k].note = n}

\* [events, notes] once the regions 0 .. k-1 of the frame in hand are done.
FrameUpTo(k) ==
    GenerateUpTo(pMetrics, k, gen.note_map, frameStartNotes, gen.sensitivity,
                 gen.on_threshold, gen.off_threshold)

\* C1: a note inactive at the start of the frame, with a region mapped to it
\* whose value is above the on threshold, gets exactly one note_on in the
\* frame, also when several regions map to the note.
C1_ExactlyOneNoteOn ==
    FrameEvaluated =>
        \A n \in Range(gen.note_map) :
            (/\ n \notin DOMAIN frameStartNotes
             /\ \E i \in RegionsOf(n) : pMetrics[i + 1] > gen.on_threshold)
            => Cardinality(EventsOf("note_on", n)) = 1

\* C2: a note active at the start of the frame, with a region mapped to it
\* whose value is at or below the off threshold, gets exactly one note_off in
\* the frame, carrying its stored velocity, and is not in current_notes when
\* generate_midi_events returns.
C2_ExactlyOneNoteOff ==
    FrameEvaluated =>
        \A n \in DOMAIN frameStartNotes :
            (\E i \in RegionsOf(n) : pMetrics[i + 1] <= gen.off_threshold)
            => /\ Cardinality(EventsOf("note_off", n)) = 1
               /\ \A k \in EventsOf("note_off", n) :
                     pEvents[k].velocity = frameStartNotes[n]
               /\ n \notin DOMAIN gen.current_notes

\* Region k-1 of the frame in hand is evaluated with its note inactive and a
\* value in the dead-band (off < m <= on).
InDeadBand(k) ==
    /\ (k - 1) \in DOMAIN gen.note_map
    /\ gen.note_map[k - 1] \notin DOMAIN FrameUpTo(k - 1).notes
    /\ gen.off_threshold < pMetrics[k]
    /\ pMetrics[k] <= gen.on_threshold

\* C3: the dead-band.  A region evaluated with its note inactive and a value
\* m, off < m <= on, adds no event and leaves current_notes as it was; the
\* events and notes of the frame are those left by its last region, so a
\* frame of such regions only returns no event and changes no note.
C3_DeadBandHolds ==
    FrameEvaluated =>
        /\ \A k \in 1..Len(pMetrics) :
              InDeadBand(k) => FrameUpTo(k) = FrameUpTo(k - 1)
        /\ pEvents = FrameUpTo(Len(pMetrics)).events
        /\ gen.current_notes = FrameUpTo(Len(pMetrics)).notes
        /\ (\A k \in 1..Len(pMetrics) : InDeadBand(k))
              => pEvents = <<>> /\ gen.current_notes = frameStartNotes

\* A frame with a dead-band region on an inactive note, the value being the
\* on threshold itself, next to a region that did produce an event.
C3_Witness ==
    /\ FrameEvaluated
    /\ pEvents # <<>>
    /\ \E k \in 1..Len(pMetrics) :
          InDeadBand(k) /\ pMetrics[k] = gen.on_threshold

\* ------------------------------------------------------------------------
\* Setters against a running Processing thread, under Spec
\* ------------------------------------------------------------------------
\* C4: while set_grid_size, set_note_range or set_scale runs on the UI thread,
\* no frame is evaluated against the new note_map while current_notes still
\* holds a note started under the old one: the frame in hand was not
\* evaluated between the setter's locked block and its stop_all_notes with
\* an active note that the new note_map no longer has.
C4_NoStaleEvaluation == ~frameStale

VelocityNum(i) == pMetrics[i] * MaxVelocity * gen.sensitivity

VelocityDen == MetricDen * SensDen

Clamp(v) == Max2(0, Min2(MaxVelocity, v))

Settings(g) ==
    <<g.root_note, g.scale_name, g.note_range, g.grid_width, g.grid_height>>

\* C10: the note map is a function of (root, scale, note range, grid width,
\* grid height) alone: two generators with the same five settings have the
\* same note map, whatever calls led there and whatever notes are active,
\* and the map is the one built from the settings in force.
C10_NoteMapIsFunctionOfSettings ==
    /\ Settings(gen) = Settings(genB) => gen.note_map = genB.note_map
    /\ \A g \in {gen, genB} :
          g.note_map = _create_note_map(g.root_note, g.scale_name,
                                        g.note_range,
                                        g.grid_width * g.grid_height)

\* Two generators brought to the same settings, away from the defaults, with
\* different notes active.
C10_Witness ==
    /\ Settings(gen) = Settings(genB)
    /\ Settings(gen) # Settings(DefaultGenerator)
    /\ gen.current_notes # genB.current_notes
    /\ gen.note_map = genB.note_map

\* ------------------------------------------------------------------------
\* The processing queue at capacity, under SpecVideo
\* ------------------------------------------------------------------------
\* C5 as stated: a frame that arrives at a full processing queue is enqueued.
C5_NewFrameAlwaysEnqueued == decDrop \notin {"empty", "full"}

\* The Decoder is at a call on the processing queue.
AtProcessingQueue == decPc \in {"put_processing", "evict_get", "evict_put"}

\* C5, amended: the processing queue never holds more than
\* PROCESSING_QUEUE_SIZE items; at each of its calls on the queue the Decoder
\* has a step to take (it never waits); the eviction removes the item at the
\* head of the queue and then appends the new frame, unless the queue was
\* emptied before the removal or refilled before the append, in which cases
\* the new frame is dropped and the queue is left as it is.
C5_EvictionBoundedNonBlocking ==
    /\ [](Len(processing_queue) <= PROCESSING_QUEUE_SIZE)
    /\ [](AtProcessingQueue => ENABLED DecoderStep)
    /\ [][D_EvictGet =>
            \/ /\ processing_queue # <<>>
               /\ processing_queue' = Tail(processing_queue)
               /\ decPc' = "evict_put"
            \/ /\ processing_queue = <<>>
               /\ UNCHANGED processing_queue
               /\ decDrop' = "empty"]_vars
    /\ [][D_EvictPut =>
            \/ /\ processing_queue' = Append(processing_queue, decFrame)
               /\ Len(processing_queue') <= PROCESSING_QUEUE_SIZE
               /\ decDrop' = "enqueued"
            \/ /\ Len(processing_queue) = PROCESSING_QUEUE_SIZE
               /\ UNCHANGED processing_queue
               /\ decDrop' = "full"]_vars

\* The eviction has run in full: the queue is at capacity again with the new
\* frame last and the oldest frame gone.
C5_Witness ==
    /\ decDrop = "enqueued"
    /\ Len(processing_queue) = PROCESSING_QUEUE_SIZE
    /\ processing_queue[Len(processing_queue)] = decFrame
    /\ \A k \in DOMAIN processing_queue :
          processing_queue[k] > decFrame - PROCESSING_QUEUE_SIZE

\* ------------------------------------------------------------------------
\* stop() / cleanup(), under SpecVideo and SpecVideoFair
\* ------------------------------------------------------------------------
ThreadsEnded == ~Alive(decPc) /\ ~Alive(dispPc) /\ ~Alive(procPc)

\* C6: a cleanup() that has begun returns, and the Decoder, Display and
\* Processing threads all end, from whatever state the pipeline was in.
C6_CleanupReturnsThreadsEnd ==
    (cPc # "idle") ~> (cPc = "idle" /\ ThreadsEnded)

\* cleanup() is waiting for the Decoder, which is in its pause loop; the
\* processing queue was full, so it holds no sentinel; the Display thread
\* is in its get.
C6_Witness ==
    /\ cPc = "join_decoder"
    /\ pause_event
    /\ decPc = "pause"
    /\ Len(processing_queue) = PROCESSING_QUEUE_SIZE
    /\ \A k \in DOMAIN processing_queue : processing_queue[k] # 0
    /\ dispPc = "get"
    /\ procPc = "get"

\* What cleanup() is to leave behind.
Released ==
    [stop |-> TRUE, playing |-> FALSE, display |-> 0, processing |-> 0,
     ui |-> 0, container |-> FALSE]

\* C7: cleanup() is idempotent: the second call leaves what the first left,
\* the stop flag set, not playing, the three queues empty and the container
\* released.
C7_SecondCleanupLeavesSameState ==
    /\ \A k \in DOMAIN left : left[k] = Released
    /\ Len(left) >= 2 => left[2] = left[1]

\* ------------------------------------------------------------------------
\* The note map over the scale table: one generator, whole setter calls
\* ------------------------------------------------------------------------
\* Grids of the scale specification have at most ScaleRegions regions.
ScaleRegions == 5

ScaleGridSizes == {wh \in (1..ScaleRegions) \X (1..ScaleRegions) :
                      wh[1] * wh[2] <= ScaleRegions}

\* Note ranges of the scale specification: one that begins at the root, one
\* that begins inside the root's octave, one below the root, one too narrow
\* for any note of a scale rooted at 62.
ScaleRanges == {<<60, 72>>, <<62, 72>>, <<58, 63>>, <<60, 61>>}

K_SetScale ==
    /\ \E sc \in ScaleNames, r \in ModelRoots : gen' = set_scale(gen, sc, r)
    /\ UNCHANGED genB
    /\ MapFrame

K_SetGridSize ==
    /\ \E wh \in ScaleGridSizes : gen' = set_grid_size(gen, wh[1], wh[2])
    /\ UNCHANGED genB
    /\ MapFrame

K_SetNoteRange ==
    /\ \E nr \in ScaleRanges : gen' = set_note_range(gen, nr[1], nr[2])
    /\ UNCHANGED genB
    /\ MapFrame

ScaleNext ==
    \/ K_SetScale
    \/ K_SetGridSize
    \/ K_SetNoteRange

SpecScale == Init /\ [][ScaleNext]_vars

\* The notes of a set, ascending.
RECURSIVE Ascending(_)
Ascending(S) ==
    IF S = {} THEN <<>>
    ELSE LET lo == CHOOSE x \in S : \A y \in S : x <= y
         IN  <<lo>> \o Ascending(S \ {lo})

\* The notes of the scale that lie in the note range, ascending: the notes n
\* of the range whose distance from the root is an interval of the scale,
\* octaves apart.
InRangeScaleNotes(root_note, scale_name, note_range) ==
    Ascending({n \in note_range[1]..note_range[2] :
                  \E k \in DOMAIN SCALES(scale_name) :
                      (n - root_note) % 12 = SCALES(scale_name)[k]})

\* C11: with Pentatonic Major, root 60, range (60, 72) and 5 regions the note
\* map is {0: 60, 1: 62, 2: 64, 3: 67, 4: 69}, and in general region i is
\* mapped to the (i mod n)-th of the n ascending notes of the scale that lie
\* in the note range.
C11_NoteMapCyclesInRangeScaleNotes ==
    /\ (/\ gen.scale_name = "Pentatonic Major"
        /\ gen.root_note = 60
        /\ gen.note_range = <<60, 72>>
        /\ gen.grid_width * gen.grid_height = 5)
       => gen.note_map = (0 :> 60 @@ 1 :> 62 @@ 2 :> 64 @@ 3 :> 67 @@ 4 :> 69)
    /\ LET notes == InRangeScaleNotes(gen.root_note, gen.scale_name,
                                      gen.note_range)
           n == Len(notes)
       IN  n > 0 =>
              /\ DOMAIN gen.note_map = 0..(gen.grid_width * gen.grid_height - 1)
              /\ \A i \in DOMAIN gen.note_map :
                    gen.note_map[i] = notes[(i % n) + 1]

\* ------------------------------------------------------------------------
\* Whole process_frame calls on one generator, with the history of the calls
\* ------------------------------------------------------------------------
\* The history keeps at most LogFrames calls.
LogFrames == 4

\* play_midi_events: nothing without a sink, else the events in order.
RECURSIVE play_midi_events(_, _, _)
play_midi_events(g, sk, evs) ==
    IF ~g.is_initialized \/ ~g.midi_out \/ evs = <<>> THEN sk
    ELSE play_midi_events(g, SinkWrite(sk, Head(evs)), Tail(evs))

\* process_frame on a frame whose regions have the metric values mv.
F_ProcessFrame ==
    /\ gen.is_initialized
    /\ Len(frameLog) < LogFrames
    /\ \E mv \in SeqsOfLen(MetricValues, gen.total_regions) :
          LET r == generate_locked(gen, mv)
          IN  /\ gen' = r.gen
              /\ sink' = play_midi_events(gen, sink, r.events)
              /\ frameLog' = Append(frameLog,
                                    [metrics |-> mv, events |-> r.events])
    /\ UNCHANGED <<genB, pPc, pMetrics, pVelocities, pEvents,
                   frameStartNotes, frameStale, uiPc, uiLog>>
    /\ UNCHANGED <<videoVars, managerVars, writeLog>>

FramesNext == F_ProcessFrame

SpecFrames == VelocityInit /\ [][FramesNext]_vars

\* The metric sequence 0.0, 0.2, 0.05, 0.0 and the events it is to produce
\* on the one region's note.
C12_Metrics == <<0, MetricDen \div 5, MetricDen \div 20, 0>>

C12_Events(note) ==
    << <<>>, <<Ev("note_on", note, 25)>>, <<Ev("note_off", note, 25)>>, <<>> >>

\* The first k calls had the first k metric values of the sequence.
C12_Prefix(k) ==
    /\ k <= Len(frameLog)
    /\ \A j \in 1..k : frameLog[j].metrics = <<C12_Metrics[j]>>

\* C12: for a single region with on threshold 0.1, off threshold 0.05 and
\* sensitivity 1, the metric sequence 0.0, 0.2, 0.05, 0.0 over four
\* consecutive frames produces exactly [none, note_on(note, 25),
\* note_off(note, 25), none].
C12_ScenarioEvents ==
    (/\ gen.total_regions = 1
     /\ gen.on_threshold = MetricDen \div 10
     /\ gen.off_threshold = MetricDen \div 20
     /\ gen.sensitivity = SensDen)
    => \A k \in 1..4 :
          C12_Prefix(k) => frameLog[k].events = C12_Events(gen.note_map[0])[k]

C12_Witness ==
    /\ gen.total_regions = 1
    /\ gen.sensitivity = SensDen
    /\ C12_Prefix(4)
    /\ frameLog[3].events # <<>>
    /\ sink.sounding = EmptyDict

\* ------------------------------------------------------------------------
\* The playback session: open, play, pause, stop
\* ------------------------------------------------------------------------
\* play() has not been called since open(): the first play() of a session
\* finds _is_playing false and starts the Display thread.
NotYetPlayed == container /\ cPc = "idle" /\ dispPc = "none" /\ left = <<>>

NoFrameEnqueued == display_queue = <<>> /\ processing_queue = <<>>

\* C13: open() leaves the session Stopped with no worker thread running and
\* no frame enqueued; the Decoder thread is started by play(), not before,
\* as the Display and Processing threads are.
C13_OpenStartsNothing ==
    NotYetPlayed =>
        /\ ~_is_playing
        /\ ~Alive(decPc) /\ ~Alive(dispPc) /\ ~Alive(procPc)
        /\ NoFrameEnqueued

\* stop() / cleanup() has returned and the UI thread is between calls.
Stopped == cPc = "idle" /\ left # <<>>

\* is_playing()
is_playing == _is_playing /\ ~pause_event

\* A thread that was not alive is alive after the step.
ThreadStarted ==
    \/ ~Alive(decPc) /\ Alive(decPc')
    \/ ~Alive(dispPc) /\ Alive(dispPc')
    \/ ~Alive(procPc) /\ Alive(procPc')

\* C14: stop() is terminal for a session: once stop() / cleanup() has
\* returned, is_playing() is false, no step starts a thread, and a play() or
\* pause() call enqueues no frame, until the next open().
C14_StopIsTerminal ==
    /\ [](Stopped => ~is_playing)
    /\ [][Stopped => ~ThreadStarted]_vars
    /\ [][(Stopped /\ (V_Play \/ V_Pause))
            => UNCHANGED <<display_queue, processing_queue,
                           ui_update_queue>>]_vars

\* pause() has been called on a stopped session.
C14_Witness == Stopped /\ pause_event /\ ~container /\ ~is_playing

\* ------------------------------------------------------------------------
\* TrackManager: the tracks, their generators and the shared MIDI output
\* ------------------------------------------------------------------------
\* In a track's generator midi_out is the number of a sink, 0 for None.
TrackGenerator(mo) ==
    [NewGenerator(1, 1, <<60, 62>>, "Major", ROOT_NOTE)
        EXCEPT !.midi_out = mo, !.is_initialized = (mo # 0)]

\* MidiTrack.__init__: _init_audio_generator leaves audio_generator None
\* when the construction of the AudioGenerator raises (has_generator = ok).
NewTrack(mo, ok) ==
    [midi_out |-> mo,
     audio_enabled |-> FALSE,
     grid_width |-> 1,
     grid_height |-> 1,
     note_range |-> <<60, 62>>,
     custom_note_mapping |-> EmptyDict,
     note_on_threshold |-> NOTE_ON_THRESHOLD,
     note_off_threshold |-> NOTE_OFF_THRESHOLD,
     has_generator |-> ok,
     audio_generator |-> TrackGenerator(mo)]

ManagerFrame ==
    UNCHANGED <<genVars, videoVars, logVars>>

\* routeLog and swap tell of the call that has just returned: a call that is
\* neither a routed frame nor a replacement leaves both empty.
NoRoute == routeLog' = <<>>

NoReplacement == swap' = NoSwap

NoDestroy == destroyLog' = <<>>

\* The events written to the sink numbered id, in order; a write to a closed
\* sink raises and is logged.
RECURSIVE WriteTo(_, _, _)
WriteTo(sks, id, evs) ==
    IF evs = <<>> THEN sks
    ELSE WriteTo([sks EXCEPT ![id] = SinkWrite(sks[id], Head(evs))], id,
                 Tail(evs))

\* stop_all_notes of a track's generator: the note_off calls, then clear().
TrackNoteOffs(g, sks) ==
    IF g.midi_out # 0
    THEN [sks EXCEPT ![g.midi_out] =
             SinkWriteAll(sks[g.midi_out],
                          {Ev("note_off", n, g.current_notes[n]) :
                              n \in DOMAIN g.current_notes})]
    ELSE sks

\* add_track()
T_AddTrack ==
    /\ manager_midi_out # 0
    /\ Len(tracks) < MaxTracks
    /\ \E ok \in BOOLEAN :
          tracks' = Append(tracks, NewTrack(manager_midi_out, ok))
    /\ UNCHANGED <<sinks, manager_midi_out, system_midi_out>>
    /\ NoRoute /\ NoReplacement /\ NoDestroy
    /\ ManagerFrame

\* toggle_track_audio() on the selected track.
T_ToggleAudio ==
    /\ \E i \in DOMAIN tracks :
          LET t == tracks[i]
              off == t.audio_enabled /\ t.has_generator
          IN  /\ tracks' =
                    [tracks EXCEPT
                        ![i].audio_enabled = ~t.audio_enabled,
                        ![i].audio_generator =
                            IF off THEN stop_all_notes(t.audio_generator)
                            ELSE t.audio_generator]
              /\ sinks' = IF off THEN TrackNoteOffs(t.audio_generator, sinks)
                          ELSE sinks
    /\ UNCHANGED <<manager_midi_out, system_midi_out>>
    /\ NoRoute /\ NoReplacement /\ NoDestroy
    /\ ManagerFrame

\* AudioGenerator.process_frame of a track on a frame all of whose regions
\* have the metric value m: the generator and the sinks afterwards.
TrackProcessFrame(g, sks, m) ==
    IF ~g.is_initialized THEN [gen |-> g, sinks |-> sks, events |-> <<>>]
    ELSE LET r == generate_locked(g, [i \in 1..g.total_regions |-> m])
         IN  [gen |-> r.gen,
              events |-> r.events,
              sinks |-> IF g.midi_out # 0
                        THEN WriteTo(sks, g.midi_out, r.events)
                        ELSE sks]

Routed(t) == t.audio_enabled /\ t.has_generator

\* What a routed frame did at track t: whether the track processed it, the
\* events its generator returned, and the track's note map and per-region
\* overrides at that frame.
Outcome(outcome, t, events) ==
    [outcome |-> outcome,
     events |-> events,
     note_map |-> t.audio_generator.note_map,
     custom_note_mapping |-> t.custom_note_mapping]

\* _process_frame: the loop over the tracks from track i on, inside the one
\* try; process_frame raises at the tracks of bad, and the except clause
\* ends the loop there.
RECURSIVE RouteFrom(_, _, _, _, _, _)
RouteFrom(tr, sks, i, m, bad, log) ==
    IF i > Len(tr) THEN [tracks |-> tr, sinks |-> sks, log |-> log]
    ELSE IF ~Routed(tr[i])
    THEN RouteFrom(tr, sks, i + 1, m, bad,
                   Append(log, Outcome("not_enabled", tr[i], <<>>)))
    ELSE IF i \in bad
    THEN [tracks |-> tr, sinks |-> sks,
          log |-> Append(log, Outcome("raised", tr[i], <<>>))
                  \o [j \in 1..(Len(tr) - i) |->
                         IF Routed(tr[i + j])
                         THEN Outcome("not_reached", tr[i + j], <<>>)
                         ELSE Outcome("not_enabled", tr[i + j], <<>>)]]
    ELSE LET r == TrackProcessFrame(tr[i].audio_generator, sks, m)
         IN  RouteFrom([tr EXCEPT ![i].audio_generator = r.gen], r.sinks,
                       i + 1, m, bad,
                       Append(log, Outcome("processed", tr[i], r.events)))

\* _process_frame(frame), frame not None.
T_RouteFrame ==
    /\ tracks # <<>>
    /\ \E m \in CoarseMetricValues, bad \in SUBSET (DOMAIN tracks) :
          LET r == RouteFrom(tracks, sinks, 1, m, bad, <<>>)
          IN  /\ tracks' = r.tracks
              /\ sinks' = r.sinks
              /\ routeLog' = r.log
    /\ UNCHANGED <<manager_midi_out, system_midi_out>>
    /\ NoReplacement /\ NoDestroy
    /\ ManagerFrame

\* ------------------------------------------------------------------------
\* Replacing the shared MIDI output
\* ------------------------------------------------------------------------
\* The <<track, note>> pairs of the notes in the tracks' current_notes.
ActiveNotes(tr) ==
    {p \in (DOMAIN tr) \X (0..127) :
        /\ tr[p[1]].has_generator
        /\ p[2] \in DOMAIN tr[p[1]].audio_generator.current_notes}

\* The tracks whose references are not all the sink numbered new, or whose
\* generator's is_initialized is not "new is not None".
Torn(tr, new) ==
    {i \in DOMAIN tr :
        \/ tr[i].midi_out # new
        \/ /\ tr[i].has_generator
           /\ \/ tr[i].audio_generator.midi_out # new
              \/ tr[i].audio_generator.is_initialized # (new # 0)}

\* The loop that rebinds track.midi_out and the generator's midi_out and
\* is_initialized.
Rebind(tr, new) ==
    [i \in DOMAIN tr |->
        [tr[i] EXCEPT
            !.midi_out = new,
            !.audio_generator =
                IF tr[i].has_generator
                THEN [@ EXCEPT !.midi_out = new, !.is_initialized = (new # 0)]
                ELSE @]]

\* The loop "stop_all_notes on every track that has a generator", from track
\* i on: the sinks afterwards.
RECURSIVE StopAllSinks(_, _, _)
StopAllSinks(tr, sks, i) ==
    IF i > Len(tr) THEN sks
    ELSE StopAllSinks(tr,
                      IF tr[i].has_generator
                      THEN TrackNoteOffs(tr[i].audio_generator, sks)
                      ELSE sks,
                      i + 1)

\* The tracks after that loop.
StopAllTracks(tr) ==
    [i \in DOMAIN tr |->
        IF tr[i].has_generator
        THEN [tr[i] EXCEPT !.audio_generator = stop_all_notes(@)]
        ELSE tr[i]]

\* Of the active notes, those whose note_off the loop writes to an open sink.
StopAllOffs(tr, sks) ==
    {p \in ActiveNotes(tr) :
        LET g == tr[p[1]].audio_generator
        IN  g.midi_out # 0 /\ sks[g.midi_out].open}

\* A sink number no reference holds: the Output a caller newly opens.
Fresh(k) ==
    /\ ~sinks[k].open
    /\ k # manager_midi_out /\ k # system_midi_out
    /\ \A i \in DOMAIN tracks :
          tracks[i].midi_out # k /\ tracks[i].audio_generator.midi_out # k

\* The value a replacement installs: None, or a newly opened Output.
NewOutputs == {0} \cup {k \in 1..NumSinks : Fresh(k)}

Opened(sks, new) == IF new = 0 THEN sks ELSE [sks EXCEPT ![new] = NewSink]

\* TrackManager.update_midi_output(new_midi_out)
T_UpdateMidiOutput ==
    /\ \E new \in NewOutputs :
          /\ manager_midi_out' = new
          /\ tracks' = Rebind(tracks, new)
          /\ sinks' = Opened(sinks, new)
          /\ swap' = [done |-> TRUE, old |-> manager_midi_out, new |-> new,
                      before |-> ActiveNotes(tracks),
                      active |-> ActiveNotes(tracks), offs |-> {},
                      torn |-> Torn(Rebind(tracks, new), new)]
    /\ UNCHANGED system_midi_out
    /\ NoRoute /\ NoDestroy
    /\ ManagerFrame

\* AudioSystemManager._on_midi_device_change: stop_all_notes on every track,
\* _initialize_global_audio (the old Output is closed; the new one is opened
\* unless there is no device or the initialization raises), the tracks are
\* rebound.  TrackManager.midi_out is not touched.
T_DeviceChange ==
    /\ \E new \in NewOutputs :
          LET stopped == StopAllTracks(tracks)
              silenced == StopAllSinks(tracks, sinks, 1)
              closed == IF system_midi_out # 0
                        THEN [silenced EXCEPT ![system_midi_out].open = FALSE]
                        ELSE silenced
          IN  /\ system_midi_out' = new
              /\ tracks' = Rebind(stopped, new)
              /\ sinks' = Opened(closed, new)
              /\ swap' = [done |-> TRUE, old |-> system_midi_out, new |-> new,
                          before |-> ActiveNotes(tracks),
                          active |-> ActiveNotes(stopped),
                          offs |-> StopAllOffs(tracks, sinks),
                          torn |-> Torn(Rebind(stopped, new), new)]
    /\ UNCHANGED manager_midi_out
    /\ NoRoute /\ NoDestroy
    /\ ManagerFrame

\* The notes an override can name: -1 disables the region.
OverrideNotes == {-1, 62}

\* An entry region -> note is put into a track's custom_note_mapping.
T_SetOverride ==
    /\ \E i \in DOMAIN tracks, n \in OverrideNotes :
          \E region \in DOMAIN tracks[i].audio_generator.note_map :
              tracks' = [tracks EXCEPT ![i].custom_note_mapping =
                            DictSet(@, region, n)]
    /\ UNCHANGED <<sinks, manager_midi_out, system_midi_out>>
    /\ NoRoute /\ NoReplacement /\ NoDestroy
    /\ ManagerFrame

\* The tracks with per-region overrides, frames routed to them.
OverrideNext ==
    \/ T_AddTrack
    \/ T_ToggleAudio
    \/ T_RouteFrame
    \/ T_SetOverride

SpecOverride == Init /\ [][OverrideNext]_vars

TracksNext ==
    \/ T_AddTrack
    \/ T_ToggleAudio
    \/ T_RouteFrame
    \/ T_UpdateMidiOutput
    \/ T_DeviceChange

SpecTracks == Init /\ [][TracksNext]_vars

ResolvedNote(ov, nm, region) ==
    IF region \in DOMAIN ov THEN ov[region] ELSE nm[region]

CleanupSinks(g, sks) ==
    IF g.midi_out = 0 \/ ~sks[g.midi_out].open THEN sks
    ELSE [sks EXCEPT ![g.midi_out] = ClosedSink]

CleanupGenerator(g) ==
    [cleanup_locked(g) EXCEPT !.midi_out = 0, !.is_initialized = FALSE]

\* Of the notes of the generator, those whose note_off reaches its sink.
DeliveredOffs(g, sks) ==
    IF g.midi_out # 0 /\ sks[g.midi_out].open
    THEN DOMAIN g.current_notes
    ELSE {}

\* MidiTrack.cleanup, then what the destruction did: the notes the track had
\* active, those whose note_off reached the sink, the notes left active.
Destroyed(t, sks) ==
    [notes |-> IF t.has_generator THEN DOMAIN t.audio_generator.current_notes
               ELSE {},
     offs |-> IF t.has_generator THEN DeliveredOffs(t.audio_generator, sks)
              ELSE {},
     left |-> IF t.has_generator
              THEN DOMAIN CleanupGenerator(t.audio_generator).current_notes
              ELSE {}]

TrackCleanupSinks(t, sks) ==
    IF t.has_generator THEN CleanupSinks(t.audio_generator, sks) ELSE sks

RemoveAt(seq, i) ==
    [j \in 1..(Len(seq) - 1) |-> IF j < i THEN seq[j] ELSE seq[j + 1]]

\* remove_track() with the track at index i selected.
T_RemoveTrack ==
    /\ Len(tracks) > 1
    /\ \E i \in DOMAIN tracks :
          /\ destroyLog' = <<Destroyed(tracks[i], sinks)>>
          /\ sinks' = TrackCleanupSinks(tracks[i], sinks)
          /\ tracks' = RemoveAt(tracks, i)
    /\ UNCHANGED <<manager_midi_out, system_midi_out>>
    /\ NoRoute /\ NoReplacement
    /\ ManagerFrame

\* TrackManager.cleanup: track.cleanup() for each track in order, from track
\* i on: the sinks afterwards and what each destruction did.
RECURSIVE CleanupFrom(_, _, _, _)
CleanupFrom(tr, sks, i, log) ==
    IF i > Len(tr) THEN [sinks |-> sks, log |-> log]
    ELSE CleanupFrom(tr, TrackCleanupSinks(tr[i], sks), i + 1,
                     Append(log, Destroyed(tr[i], sks)))

T_Cleanup ==
    /\ tracks # <<>>
    /\ LET r == CleanupFrom(tracks, sinks, 1, <<>>)
       IN  /\ sinks' = r.sinks
           /\ destroyLog' = r.log
    /\ tracks' = <<>>
    /\ UNCHANGED <<manager_midi_out, system_midi_out>>
    /\ NoRoute /\ NoReplacement
    /\ ManagerFrame

DestroyNext ==
    \/ T_AddTrack
    \/ T_ToggleAudio
    \/ T_RouteFrame
    \/ T_RemoveTrack
    \/ T_Cleanup

SpecDestroy == Init /\ [][DestroyNext]_vars

SettingGrids == {<<0, 0>>, <<128, 1>>, <<-3, 2>>, <<2, 128>>, <<127, 1>>}

SettingRanges == {<<-1, 2>>, <<60, 62>>, <<62, 60>>, <<125, 128>>,
                  <<126, 126>>, <<127, 0>>, <<127, 127>>, <<0, 0>>}

ClampInt(lo, hi, v) == Max2(lo, Min2(hi, v))

\* update_audio_generator_settings: set_grid_size, set_note_range, set_scale,
\* set_metric and set_sensitivity with the track's values, each setter ending
\* in stop_all_notes; the call of set_invert_metric then raises.
update_audio_generator_settings(t) ==
    set_scale(set_note_range(set_grid_size(t.audio_generator, t.grid_width,
                                           t.grid_height),
                             t.note_range[1], t.note_range[2]),
              t.audio_generator.scale_name, t.audio_generator.root_note)

\* The track after update_track_settings with the entries width, height,
\* min_note, max_note.  The comparison of current_root_note with the note
\* name is never equal, so the call never returns early.
TrackSettings(t, width, height, min_note, max_note) ==
    LET new_width == ClampInt(1, 127, width)
        new_height == ClampInt(1, 127, height)
        new_min_note == ClampInt(0, 127, min_note)
        clamped_max == ClampInt(0, 127, max_note)
        new_max_note == IF new_min_note >= clamped_max
                        THEN Min2(127, new_min_note + 1)
                        ELSE clamped_max
        set == [t EXCEPT !.grid_width = new_width,
                         !.grid_height = new_height,
                         !.note_range = <<new_min_note, new_max_note>>]
    IN  IF t.has_generator
        THEN [set EXCEPT !.audio_generator =
                            update_audio_generator_settings(set)]
        ELSE set

\* update_track_settings() on the active track.
T_UpdateTrackSettings ==
    /\ \E i \in DOMAIN tracks, wh \in SettingGrids, nr \in SettingRanges :
          /\ tracks' = [tracks EXCEPT
                           ![i] = TrackSettings(@, wh[1], wh[2], nr[1], nr[2])]
          /\ sinks' = IF tracks[i].has_generator
                      THEN TrackNoteOffs(tracks[i].audio_generator, sinks)
                      ELSE sinks
    /\ UNCHANGED <<manager_midi_out, system_midi_out>>
    /\ NoRoute /\ NoReplacement /\ NoDestroy
    /\ ManagerFrame

SettingsNext ==
    \/ T_AddTrack
    \/ T_UpdateTrackSettings

SpecSettings == Init /\ [][SettingsNext]_vars

\* C20: after any update_track_settings call the track's grid width and
\* height lie in 1..127, both ends of the note range lie in 0..127, and
\* min_note < max_note strictly, also when the minimum asked for is 127.
C20_SettingsWithinBounds ==
    \A i \in DOMAIN tracks :
        /\ tracks[i].grid_width \in 1..127
        /\ tracks[i].grid_height \in 1..127
        /\ tracks[i].note_range[1] \in 0..127
        /\ tracks[i].note_range[2] \in 0..127
        /\ tracks[i].note_range[1] < tracks[i].note_range[2]

\* ------------------------------------------------------------------------
\* The activation thresholds of a track
\* ------------------------------------------------------------------------
\* Positions of the two sliders, each from 0.0 to 1.0.
ThresholdValues ==
    {0, NOTE_OFF_THRESHOLD, NOTE_ON_THRESHOLD, 2 * NOTE_ON_THRESHOLD, MetricDen}

\* The track after _on_threshold_change(threshold_type, ...) with the slider
\* at new_threshold.
ThresholdChange(t, threshold_type, new_threshold) ==
    IF threshold_type = "on"
    THEN IF new_threshold # t.note_on_threshold
         THEN [t EXCEPT !.note_on_threshold = new_threshold,
                        !.audio_generator.on_threshold =
                            IF t.has_generator THEN new_threshold ELSE @]
         ELSE t
    ELSE IF new_threshold # t.note_off_threshold
         THEN [t EXCEPT !.note_off_threshold = new_threshold,
                        !.audio_generator.off_threshold =
                            IF t.has_generator THEN new_threshold ELSE @]
         ELSE t

\* _on_threshold_change on the active track.
T_ThresholdChange ==
    /\ \E i \in DOMAIN tracks, threshold_type \in {"on", "off"},
          new_threshold \in ThresholdValues :
          tracks' = [tracks EXCEPT
                        ![i] = ThresholdChange(@, threshold_type,
                                               new_threshold)]
    /\ UNCHANGED <<sinks, manager_midi_out, system_midi_out>>
    /\ NoRoute /\ NoReplacement /\ NoDestroy
    /\ ManagerFrame

ThresholdNext ==
    \/ T_AddTrack
    \/ T_ThresholdChange

SpecThreshold == Init /\ [][ThresholdNext]_vars

R_GetNewest ==
    /\ procPc = "get"
    /\ IF processing_queue # <<>>
       THEN /\ processing_queue' = SubSeq(processing_queue, 1,
                                          Len(processing_queue) - 1)
            /\ procFrame' = IF processing_queue[Len(processing_queue)] = 0
                            THEN procFrame
                            ELSE processing_queue[Len(processing_queue)]
            /\ procPc' = IF processing_queue[Len(processing_queue)] = 0
                         THEN "dead" ELSE "callback"
       ELSE /\ processing_queue' = processing_queue
            /\ procFrame' = procFrame
            /\ procPc' = IF ~_is_playing /\ ~pause_event THEN "dead"
                         ELSE "loop"
    /\ UNCHANGED <<display_queue, ui_update_queue, stop_event, pause_event,
                   _is_playing, container, decPc, decFrame, decDrop, dispPc,
                   dispFrame, cPc, left>>
    /\ GenFrame /\ UNCHANGED <<uiFrame, callbackRaised>>

\* _processing_loop's get, recording the frame it passes to the callback.
R_GetRecorded ==
    /\ procPc = "get"
    /\ IF processing_queue # <<>>
       THEN /\ processing_queue' = Tail(processing_queue)
            /\ procFrame' = IF Head(processing_queue) = 0 THEN procFrame
                            ELSE Head(processing_queue)
            /\ procPc' = IF Head(processing_queue) = 0 THEN "dead"
                         ELSE "callback"
       ELSE /\ processing_queue' = processing_queue
            /\ procFrame' = procFrame
            /\ procPc' = IF ~_is_playing /\ ~pause_event THEN "dead"
                         ELSE "loop"
    /\ UNCHANGED <<display_queue, ui_update_queue, stop_event, pause_event,
                   _is_playing, container, decPc, decFrame, decDrop, dispPc,
                   dispFrame, cPc, left>>
    /\ GenFrame /\ UNCHANGED <<uiFrame, callbackRaised>>

\* _display_loop's put_nowait, recording the frame the UI-update queue accepted.
S_PutRecorded ==
    /\ dispPc = "put"
    /\ ui_update_queue' = PutNowait(ui_update_queue, UI_UPDATE_QUEUE_SIZE,
                                    dispFrame)
    /\ uiFrame' = IF Full(ui_update_queue, UI_UPDATE_QUEUE_SIZE) THEN uiFrame
                  ELSE dispFrame
    /\ dispFrame' = 0
    /\ dispPc' = "loop"
    /\ UNCHANGED <<display_queue, processing_queue, stop_event, pause_event,
                   _is_playing, container, decPc, decFrame, decDrop, procPc,
                   cPc, left>>
    /\ GenFrame /\ UNCHANGED <<procFrame, callbackRaised>>

\* A Processing loop whose callback call is not guarded: an exception of the
\* callback reaches the outer handler, which breaks out of the loop.
R_CallbackRaiseEnds ==
    /\ procPc = "callback"
    /\ \E raises \in BOOLEAN :
           /\ callbackRaised' = (callbackRaised \/ raises)
           /\ procPc' = IF raises THEN "dead" ELSE "loop"
    /\ UNCHANGED <<display_queue, processing_queue, ui_update_queue,
                   stop_event, pause_event, _is_playing, container, decPc,
                   decFrame, decDrop, dispPc, dispFrame, cPc, left>>
    /\ GenFrame /\ UNCHANGED <<procFrame, uiFrame>>

\* self.frame_callback(frame_gray) returns, or raises: the inner handler logs
\* the exception and the loop goes on.
R_CallbackRecorded ==
    /\ procPc = "callback"
    /\ \E raises \in BOOLEAN :
           /\ callbackRaised' = (callbackRaised \/ raises)
           /\ procPc' = "loop"
    /\ UNCHANGED <<display_queue, processing_queue, ui_update_queue,
                   stop_event, pause_event, _is_playing, container, decPc,
                   decFrame, decDrop, dispPc, dispFrame, cPc, left>>
    /\ GenFrame /\ UNCHANGED <<procFrame, uiFrame>>

DeliveryNext ==
    \/ DecoderStep
    \/ S_Loop \/ S_Get \/ S_PutRecorded
    \/ R_Loop \/ R_GetRecorded \/ R_CallbackRecorded
    \/ V_Open
    \/ V_Play
    \/ V_Pause
    \/ V_ProcessUiUpdates
    \/ C_Begin
    \/ CleanupStep

SpecDelivery == Init /\ [][DeliveryNext]_vars

C23_CallbackErrorKeepsLoop ==
    [][/\ (callbackRaised' /\ procPc = "callback" /\ procPc' # procPc)
              => procPc' = "loop"
       /\ (/\ callbackRaised
           /\ procPc = "get" /\ procPc' # procPc
           /\ processing_queue # <<>>
           /\ Head(processing_queue) # 0)
              => (/\ procPc' = "callback"
                  /\ procFrame' = Head(processing_queue)
                  /\ processing_queue' = Tail(processing_queue))
       /\ (callbackRaised /\ procPc = "loop" /\ procPc' = "dead")
              => stop_event]_vars

\* The callback has raised for an earlier frame and is now running on a later
\* one.
C23_Witness ==
    /\ callbackRaised
    /\ procPc = "callback"
    /\ procFrame > 1

(***************************************************************************)
(* Sink write errors.  note_on / note_off of the sink may raise: a write   *)
(* to a closed sink does, and so does the k-th write of a call for every   *)
(* k in fails.  writeLog keeps, per process_frame call, the writes that    *)
(* were tried and whether each raised.                                     *)
(***************************************************************************)

\* A play_midi_events whose try encloses the whole loop: the first write that
\* raises ends the call.
RECURSIVE TryUntilError(_, _, _, _, _)
TryUntilError(sk, evs, fails, k, log) ==
    IF k > Len(evs) THEN [sink |-> sk, attempts |-> log]
    ELSE LET raised == ~sk.open \/ k \in fails
         IN  IF raised
             THEN [sink |-> sk,
                   attempts |-> Append(log, [event |-> evs[k],
                                             raised |-> TRUE])]
             ELSE TryUntilError(SinkWrite(sk, evs[k]), evs, fails, k + 1,
                                Append(log, [event |-> evs[k],
                                             raised |-> FALSE]))

\* The loop of play_midi_events: each event is written inside its own try, an
\* exception is logged and the loop goes on with the next event.
RECURSIVE TryEach(_, _, _, _, _)
TryEach(sk, evs, fails, k, log) ==
    IF k > Len(evs) THEN [sink |-> sk, attempts |-> log]
    ELSE LET raised == ~sk.open \/ k \in fails
         IN  TryEach(IF raised THEN sk ELSE SinkWrite(sk, evs[k]), evs, fails,
                     k + 1,
                     Append(log, [event |-> evs[k], raised |-> raised]))

\* process_frame with a sink whose writes may raise.
F_ProcessFrameSinkErrors ==
    /\ gen.is_initialized
    /\ Len(frameLog) < LogFrames
    /\ \E mv \in SeqsOfLen(MetricValues, gen.total_regions),
          fails \in SUBSET (1..(2 * gen.total_regions)) :
          LET r == generate_locked(gen, mv)
              w == IF ~gen.midi_out THEN [sink |-> sink, attempts |-> <<>>]
                   ELSE TryEach(sink, r.events, fails, 1, <<>>)
          IN  /\ gen' = r.gen
              /\ sink' = w.sink
              /\ frameLog' = Append(frameLog,
                                    [metrics |-> mv, events |-> r.events])
              /\ writeLog' = Append(writeLog, w.attempts)
    /\ UNCHANGED <<genB, pPc, pMetrics, pVelocities, pEvents,
                   frameStartNotes, frameStale, uiPc, uiLog>>
    /\ UNCHANGED <<videoVars, managerVars>>

SinkErrorsNext == F_ProcessFrameSinkErrors

SpecSinkErrors == VelocityInit /\ [][SinkErrorsNext]_vars

\* current_notes as the events of the first k calls leave it when every write
\* is taken to have succeeded.
RECURSIVE ApplyEvents(_, _)
ApplyEvents(notes, evs) ==
    IF evs = <<>> THEN notes
    ELSE ApplyEvents(IF Head(evs).action = "note_on"
                     THEN DictSet(notes, Head(evs).note, Head(evs).velocity)
                     ELSE DictDel(notes, Head(evs).note),
                     Tail(evs))

RECURSIVE NotesAfter(_)
NotesAfter(k) ==
    IF k = 0 THEN EmptyDict
    ELSE ApplyEvents(NotesAfter(k - 1), frameLog[k].events)

\* C24: a sink write that raises does not stop the note state machine: every
\* event of a frame is tried, in order, whatever raised before it;
\* current_notes is what the generated events make it, as if every write had
\* succeeded; and a frame whose value for the region of an active note is at
\* or below the off threshold issues (tries) the note_off of that note.
C24_WriteErrorKeepsStateMachine ==
    /\ Len(writeLog) = Len(frameLog)
    /\ \A k \in DOMAIN frameLog :
          /\ Len(writeLog[k]) = Len(frameLog[k].events)
          /\ \A e \in DOMAIN writeLog[k] :
                writeLog[k][e].event = frameLog[k].events[e]
    /\ gen.current_notes = NotesAfter(Len(frameLog))
    /\ \A k \in DOMAIN frameLog : \A region \in 0..(gen.total_regions - 1) :
          (/\ gen.note_map[region] \in DOMAIN NotesAfter(k - 1)
           /\ frameLog[k].metrics[region + 1] <= gen.off_threshold)
              => \E e \in DOMAIN writeLog[k] :
                    /\ writeLog[k][e].event.action = "note_off"
                    /\ writeLog[k][e].event.note = gen.note_map[region]

\* The note_on of a note raised; a later frame re-triggered the note, the
\* note_off raised and the note_on after it was still written; a still later
\* frame wrote the note_off for a value at or below the off threshold.
C24_Witness ==
    /\ Len(writeLog) >= 3
    /\ Len(writeLog[1]) = 1
    /\ writeLog[1][1].event.action = "note_on" /\ writeLog[1][1].raised
    /\ Len(writeLog[2]) = 2
    /\ writeLog[2][1].raised /\ ~writeLog[2][2].raised
    /\ Len(writeLog[3]) = 1
    /\ writeLog[3][1].event.action = "note_off" /\ ~writeLog[3][1].raised
    /\ frameLog[3].metrics[1] <= gen.off_threshold
    /\ sink.sounding = EmptyDict

\* C25: the sink has one writer at a time: while the Processing thread is in
\* the write loop of play_midi_events, the sink is written by that loop only
\* (no note_off of a stop_all_notes called on another thread reaches the sink
\* between two of its writes).
C25_SinkHasOneWriter ==
    [][(pPc = "write" /\ sink' # sink) => pEvents' = Tail(pEvents)]_vars

(***************************************************************************)
(* Decode errors.  container.decode(video=0) is the iterator of the for    *)
(* statement of _decoder_loop: a packet it cannot decode makes the         *)
(* iterator raise in the for statement itself, outside the try of the loop *)
(* body, so the exception leaves _decoder_loop.                            *)
(***************************************************************************)
D_DecodeError ==
    /\ decPc = "loop"
    /\ container
    /\ position < MaxFrames
    /\ decPc' = "dead"
    /\ UNCHANGED <<display_queue, processing_queue, ui_update_queue,
                   stop_event, pause_event, _is_playing, container, decFrame,
                   decDrop, dispPc, dispFrame, procPc, cPc, left>>
    /\ GenFrame /\ UNCHANGED <<procFrame, uiFrame, callbackRaised>>

DecodeErrorNext == VideoNext \/ D_DecodeError

SpecDecodeError == Init /\ [][DecodeErrorNext]_vars

\* C26: when the Decoder loop ends, by a decode error or because the source
\* is exhausted, the session is marked not playing: in the state in which the
\* Decoder thread has just ended, is_playing() is false.
C26_DecoderEndMarksNotPlaying ==
    [][(Alive(decPc) /\ ~Alive(decPc')) => ~is_playing']_vars

\* C27: a track is created with a Note Generator: the track add_track appends
\* has a generator (audio_generator is not None), the generator is
\* initialized, and its midi_out is the TrackManager's shared sink.
C27_TrackCreatedWithGenerator ==
    [][Len(tracks') > Len(tracks)
          => LET t == tracks'[Len(tracks')]
             IN  /\ t.has_generator
                 /\ t.audio_generator.is_initialized
                 /\ t.audio_generator.midi_out = manager_midi_out']_vars

\* C28: re-trigger.  When generate_midi_events comes to a region whose note
\* is active with stored velocity v0 and whose value is above the on
\* threshold, with new velocity v: if |v - v0| > VELOCITY_CHANGE_THRESHOLD it
\* emits note_off(note, v0) immediately followed by note_on(note, v) and
\* stores v; otherwise it emits nothing and the stored velocity stays v0.
C28_Retrigger ==
    [][(/\ pPc = "generate" /\ pPc' = "play"
        /\ gen.total_regions = 1
        /\ gen.note_map[0] \in DOMAIN gen.current_notes
        /\ pMetrics[1] > gen.on_threshold)
          => LET note == gen.note_map[0]
                 v0 == gen.current_notes[note]
                 v == metric_to_velocity(pMetrics[1], gen.sensitivity)
             IN  IF Abs(v - v0) > VELOCITY_CHANGE_THRESHOLD
                 THEN /\ pEvents' = <<Ev("note_off", note, v0),
                                      Ev("note_on", note, v)>>
                      /\ gen'.current_notes = DictSet(gen.current_notes, note, v)
                 ELSE /\ pEvents' = <<>>
                      /\ gen'.current_notes = gen.current_notes]_vars

\* A frame has just re-triggered the active note with a velocity more than
\* the threshold away from the stored one.
C28_Witness ==
    /\ pPc = "play"
    /\ gen.note_map[0] \in DOMAIN frameStartNotes
    /\ pMetrics[1] > gen.on_threshold
    /\ Len(pEvents) = 2
    /\ pEvents[1] = Ev("note_off", gen.note_map[0],
                       frameStartNotes[gen.note_map[0]])
    /\ pEvents[2].action = "note_on"
    /\ Abs(pEvents[2].velocity - pEvents[1].velocity)
          > VELOCITY_CHANGE_THRESHOLD
    /\ Abs(pEvents[2].velocity - pEvents[1].velocity)
          <= VELOCITY_CHANGE_THRESHOLD + 2
    /\ gen.current_notes[gen.note_map[0]] = pEvents[2].velocity

\* C29: the snapshot get_current_notes_snapshot returns never shows a
\* partially applied frame: whenever the published snapshot changes, either
\* a call of generate_midi_events has just finished and the snapshot is
\* current_notes with every event of that frame applied, or the snapshot has
\* become the empty set.
C29_SnapshotIsWholeFrame ==
    [][gen'.snapshot # gen.snapshot
          => \/ gen'.snapshot = EmptyDict
             \/ /\ pPc = "generate" /\ pPc' = "play"
                /\ gen'.snapshot = gen'.current_notes
                /\ gen'.snapshot = ApplyEvents(gen.current_notes, pEvents')]_vars

\* A frame that changed the notes of two regions has just been generated,
\* and the snapshot shows both.
C29_Witness ==
    /\ pPc = "play"
    /\ Len(pEvents) = 2
    /\ pEvents[1].note # pEvents[2].note
    /\ gen.snapshot = gen.current_notes
    /\ gen.snapshot = ApplyEvents(frameStartNotes, pEvents)
    /\ gen.snapshot # EmptyDict

\* C30: a Decoder waiting in the pause loop puts nothing in the display or
\* processing queue while the pause flag is set, and a stop issued during
\* the pause makes it leave: the only step it takes with the pause flag set
\* is the one that sees the stop flag, and that step takes it to the end of
\* the loop, not to the puts of the frame it holds.
C30_StopDuringPauseDropsHeldFrame ==
    [][(decPc = "pause" /\ pause_event /\ decPc' # decPc)
          => (/\ stop_event
              /\ decPc' = "end"
              /\ UNCHANGED <<display_queue, processing_queue>>)]_vars

\* C31: generate_scale_notes(root, scale, (min, max)) returns, ascending and
\* without duplicates, exactly the notes n with min <= n <= max whose offset
\* (n - root) mod 12 is an interval of the scale; so the note map falls back
\* to the chromatic range only when no note of the scale lies in the range.
C31_ScaleNotesAreExactlyInRange ==
    LET notes == generate_scale_notes(gen.root_note, gen.scale_name,
                                      gen.note_range)
        wanted == InRangeScaleNotes(gen.root_note, gen.scale_name,
                                    gen.note_range)
    IN  gen.note_range[1] <= gen.note_range[2]
           => /\ notes = wanted
              /\ (notes = <<>>) <=> (wanted = <<>>)

\* C32: no stuck notes: whenever the Processing thread is between two
\* process_frame calls and the UI thread is between two calls, the notes
\* sounding on the sink are exactly the keys of current_notes.
C32_NoStuckNotes ==
    (pPc = "idle" /\ uiPc = "idle")
        => DOMAIN sink.sounding = DOMAIN gen.current_notes

A_ProcessFrame ==
    /\ procPc = "callback"
    /\ \E m \in CoarseMetricValues :
          LET r == generate_locked(gen, [i \in 1..gen.total_regions |-> m])
          IN  /\ gen' = r.gen
              /\ sink' = IF gen.is_initialized
                         THEN play_midi_events(gen, sink, r.events)
                         ELSE sink
    /\ procPc' = "loop"
    /\ UNCHANGED <<genB, pPc, pMetrics, pVelocities, pEvents,
                   frameStartNotes, frameStale, uiPc, uiLog>>
    /\ UNCHANGED <<display_queue, processing_queue, ui_update_queue,
                   stop_event, pause_event, _is_playing, container, decPc,
                   decFrame, decDrop, dispPc, dispFrame, cPc, left,
                   procFrame, uiFrame, callbackRaised, oldDecoders,
                   position>>
    /\ UNCHANGED trackVars

\* pause_video: VideoManager.pause(), then stop_all_notes of the generator.
A_PauseVideo ==
    /\ cPc = "idle"
    /\ pause_event' = TRUE
    /\ sink' = SinkWriteAll(sink, FlushOffs(gen))
    /\ gen' = stop_all_notes(gen)
    /\ UNCHANGED <<genB, pPc, pMetrics, pVelocities, pEvents,
                   frameStartNotes, frameStale, uiPc, uiLog>>
    /\ UNCHANGED <<display_queue, processing_queue, ui_update_queue,
                   stop_event, _is_playing, container, decPc, decFrame,
                   decDrop, dispPc, dispFrame, procPc, cPc, left,
                   procFrame, uiFrame, callbackRaised, oldDecoders,
                   position>>
    /\ UNCHANGED trackVars

PlaybackNext ==
    \/ DecoderStep
    \/ DisplayStep
    \/ R_Loop \/ R_Get \/ A_ProcessFrame
    \/ V_Open
    \/ V_Play
    \/ A_PauseVideo
    \/ V_ProcessUiUpdates

SpecPlayback == VelocityInit /\ [][PlaybackNext]_vars

\* C34: after pause_video has returned, and until play() is called, no
\* note_on reaches the sink: while the pause flag is set the sink, silenced
\* by pause_video, stays silent.
C34_PausedSinkStaysSilent ==
    pause_event => DOMAIN sink.sounding = {}

(***************************************************************************)
(* A frame in flight on the first track.  _process_frame tests             *)
(* track.audio_enabled and then calls process_frame, whose steps           *)
(* (analyze_frame, generate_midi_events under the state lock,              *)
(* play_midi_events) interleave with the UI thread's toggle_track_audio.   *)
(* The tracks after the first are processed in the last step.              *)
(***************************************************************************)
E_Check ==
    /\ pPc = "idle"
    /\ tracks # <<>>
    /\ \E m \in CoarseMetricValues :
          IF Routed(tracks[1])
          THEN /\ pMetrics' = [i \in 1..tracks[1].audio_generator.total_regions
                                  |-> m]
               /\ pPc' = "generate"
               /\ UNCHANGED <<tracks, sinks>>
          ELSE LET r == RouteFrom(tracks, sinks, 2, m, {}, <<>>)
               IN  /\ tracks' = r.tracks
                   /\ sinks' = r.sinks
                   /\ UNCHANGED <<pMetrics, pPc>>
    /\ UNCHANGED <<gen, genB, sink, pVelocities, pEvents, frameStartNotes,
                   frameStale, uiPc, uiLog>>
    /\ UNCHANGED <<manager_midi_out, system_midi_out>>
    /\ NoRoute /\ NoReplacement /\ NoDestroy
    /\ UNCHANGED <<videoVars, logVars>>

E_Generate ==
    /\ pPc = "generate"
    /\ LET g == tracks[1].audio_generator
           r == IF g.is_initialized THEN generate_locked(g, pMetrics)
                ELSE [gen |-> g, events |-> <<>>]
       IN  /\ tracks' = [tracks EXCEPT ![1].audio_generator = r.gen]
           /\ pEvents' = r.events
    /\ pPc' = "play"
    /\ UNCHANGED <<gen, genB, sink, pMetrics, pVelocities, frameStartNotes,
                   frameStale, uiPc, uiLog>>
    /\ UNCHANGED <<sinks, manager_midi_out, system_midi_out>>
    /\ NoRoute /\ NoReplacement /\ NoDestroy
    /\ UNCHANGED <<videoVars, logVars>>

E_Play ==
    /\ pPc = "play"
    /\ LET g == tracks[1].audio_generator
           written == IF g.is_initialized /\ g.midi_out # 0
                      THEN WriteTo(sinks, g.midi_out, pEvents)
                      ELSE sinks
           r == RouteFrom(tracks, written, 2, pMetrics[1], {}, <<>>)
       IN  /\ tracks' = r.tracks
           /\ sinks' = r.sinks
    /\ pPc' = "idle"
    /\ pMetrics' = <<>>
    /\ pEvents' = <<>>
    /\ UNCHANGED <<gen, genB, sink, pVelocities, frameStartNotes, frameStale,
                   uiPc, uiLog>>
    /\ UNCHANGED <<manager_midi_out, system_midi_out>>
    /\ NoRoute /\ NoReplacement /\ NoDestroy
    /\ UNCHANGED <<videoVars, logVars>>

InFlightNext ==
    \/ T_AddTrack
    \/ T_ToggleAudio
    \/ E_Check
    \/ E_Generate
    \/ E_Play

SpecInFlight == Init /\ [][InFlightNext]_vars

C36_SnapshotHasNoFlushedNote ==
    (pPc = "idle" /\ uiPc = "idle")
        => DOMAIN gen.snapshot \subseteq DOMAIN gen.current_notes

(***************************************************************************)
(* A second session.  open() and open_camera() run cleanup() and then      *)
(* start a Decoder thread without looking at the one they replace; the     *)
(* joins of cleanup() give up after their timeout (C_Join).  Of a Decoder  *)
(* thread of an earlier session the model keeps that it is alive, and how  *)
(* it ends.                                                                *)
(***************************************************************************)

\* open() or open_camera() from the return of its cleanup() on: the container
\* is opened, both events are cleared, a new Decoder thread is started.
V_Reopen ==
    /\ cPc = "idle"
    /\ left # <<>>
    /\ ~container
    /\ container' = TRUE
    /\ stop_event' = FALSE
    /\ pause_event' = FALSE
    /\ oldDecoders' = IF Alive(decPc) THEN oldDecoders + 1 ELSE oldDecoders
    /\ decPc' = "loop"
    /\ decFrame' = 0
    /\ decDrop' = "none"
    /\ position' = 0
    /\ UNCHANGED <<display_queue, processing_queue, ui_update_queue,
                   _is_playing, dispPc, dispFrame, procPc, cPc, left>>
    /\ UNCHANGED <<genVars, trackVars, procFrame, uiFrame, callbackRaised>>

\* A Decoder thread of an earlier session leaves its loop: its iterator
\* reads the container cleanup() has closed.  The decode step raises outside
\* the try block and ends the thread, or the iteration stops and the lines
\* after the loop set _is_playing to False.
O_End ==
    /\ oldDecoders > 0
    /\ oldDecoders' = oldDecoders - 1
    /\ \E raised \in BOOLEAN :
          _is_playing' = IF raised THEN _is_playing ELSE FALSE
    /\ UNCHANGED <<display_queue, processing_queue, ui_update_queue,
                   stop_event, pause_event, container, decPc, decFrame,
                   decDrop, dispPc, dispFrame, procPc, cPc, left,
                   position>>
    /\ UNCHANGED <<genVars, trackVars, procFrame, uiFrame, callbackRaised>>

\* The calls of the UI thread and the steps of the Decoder threads; the
\* Display and the Processing thread, once started by play(), hold still.
ReopenNext ==
    \/ DecoderStep
    \/ V_Open
    \/ V_Play
    \/ V_Pause
    \/ C_Begin
    \/ CleanupStep
    \/ V_Reopen
    \/ O_End

SpecReopen == Init /\ [][ReopenNext]_vars

\* The threads of the three kinds that are alive.
DecodersAlive == oldDecoders + (IF Alive(decPc) THEN 1 ELSE 0)

\* C37: at any time at most one Decoder thread, one Display thread and one
\* Processing thread of a VideoManager are alive, also after an open() that
\* follows a cleanup whose join timed out.  The Display and the Processing
\* thread are started by play() only when the stored thread is not alive, so
\* the model has one of each; the Decoder threads are counted.
C37_OneThreadOfEachKind == DecodersAlive <= 1

(***************************************************************************)
(* The container between the threads.  The decode step is taken in two     *)
(* parts, its call and its return, and so is set_position(); the UI        *)
(* thread's pc "seek" and "close" and the Decoder's pc "decoding" are the  *)
(* places where a thread is inside a call on the container.  No lock is    *)
(* taken around any of them.                                               *)
(***************************************************************************)

\* The Decoder thread calls next() on container.decode(video=0).
D_DecodeCall ==
    /\ decPc = "loop"
    /\ decPc' = "decoding"
    /\ UNCHANGED <<display_queue, processing_queue, ui_update_queue,
                   stop_event, pause_event, _is_playing, container, decFrame,
                   decDrop, dispPc, dispFrame, procPc, cPc, left>>
    /\ GenFrame /\ UNCHANGED <<procFrame, uiFrame, callbackRaised>>

\* The decode call returns: the frame at the read position as the container
\* has it now, the end of the stream, or an exception outside the try block
\* (a closed container, a decode error); then the stop check.
D_DecodeReturn ==
    /\ decPc = "decoding"
    /\ \/ /\ decPc' = "dead"
          /\ UNCHANGED <<decFrame, decDrop, position>>
       \/ /\ ~container \/ position = MaxFrames
          /\ decPc' = "end"
          /\ UNCHANGED <<decFrame, decDrop, position>>
       \/ /\ container /\ position < MaxFrames
          /\ decFrame' = position + 1
          /\ position' = position + 1
          /\ decDrop' = "none"
          /\ decPc' = IF stop_event THEN "end" ELSE "pause"
    /\ UNCHANGED <<display_queue, processing_queue, ui_update_queue,
                   stop_event, pause_event, _is_playing, container, dispPc,
                   dispFrame, procPc, cPc, left>>
    /\ UNCHANGED <<genVars, trackVars, oldDecoders>>
    /\ UNCHANGED <<procFrame, uiFrame, callbackRaised>>

\* set_position(pos) with a container: the UI thread calls container.seek().
V_SeekCall ==
    /\ cPc = "idle"
    /\ container
    /\ cPc' = "seek"
    /\ UNCHANGED <<display_queue, processing_queue, ui_update_queue,
                   stop_event, pause_event, _is_playing, container, decPc,
                   decFrame, decDrop, dispPc, dispFrame, procPc, left>>
    /\ GenFrame /\ UNCHANGED <<procFrame, uiFrame, callbackRaised>>

\* container.seek() returns: the read position is the target, or the seek
\* has raised and set_position has logged it.
V_SeekReturn ==
    /\ cPc = "seek"
    /\ \E target \in 0..MaxFrames, raised \in BOOLEAN :
          position' = IF raised THEN position ELSE target
    /\ cPc' = "idle"
    /\ UNCHANGED <<display_queue, processing_queue, ui_update_queue,
                   stop_event, pause_event, _is_playing, container, decPc,
                   decFrame, decDrop, dispPc, dispFrame, procPc, left>>
    /\ UNCHANGED <<genVars, trackVars, oldDecoders>>
    /\ UNCHANGED <<procFrame, uiFrame, callbackRaised>>

SeekNext ==
    \/ D_DecodeCall \/ D_DecodeReturn
    \/ D_Pause \/ D_PutDisplay \/ D_PutProcessing \/ D_EvictGet \/ D_EvictPut
    \/ D_End
    \/ V_Open
    \/ V_Play
    \/ V_Pause
    \/ V_SeekCall \/ V_SeekReturn
    \/ C_Begin
    \/ CleanupStep

SpecSeek == Init /\ [][SeekNext]_vars

\* C38: the container is never used by two threads at once: while the
\* Decoder thread is inside a decode step, the UI thread is neither inside
\* the seek of set_position nor at the close of cleanup.
C38_ContainerHasOneUser ==
    decPc = "decoding" => cPc \notin {"seek", "close"}

\* C38, the seek alone: no cleanup has been called.
C38_SeekOutsideDecode ==
    (decPc = "decoding" /\ left = <<>>) => cPc # "seek"

\* C38, the close alone: the UI thread at container.close(), past its join.
C38_CloseOutsideDecode ==
    decPc = "decoding" => cPc # "close"

(***************************************************************************)
(* analyze_frame in two steps.  It runs outside the state lock and reads   *)
(* self.grid_width and self.grid_height twice on the path of the simple    *)
(* metrics: for the cv2.resize that computes one value per region, and     *)
(* again for the range() of the dict it returns.                           *)
(***************************************************************************)

\* process_frame up to the flattened resize of analyze_frame: one value for
\* each region of the grid as it is now.
P_AnalyzeResize(Values) ==
    /\ pPc = "idle"
    /\ gen.is_initialized
    /\ \E flat \in SeqsOfLen(Values, gen.grid_width * gen.grid_height) :
          pMetrics' = flat
    /\ pPc' = "index"
    /\ UNCHANGED <<gen, genB, sink, pVelocities, pEvents, frameStartNotes,
                   frameStale, uiPc, uiLog>>
    /\ UNCHANGED <<videoVars, trackVars>>

\* {i: flat[i] for i in range(self.grid_width * self.grid_height)}: flat[i]
\* past the end raises IndexError, which ends process_frame.
P_AnalyzeIndex ==
    /\ pPc = "index"
    /\ LET n == gen.grid_width * gen.grid_height
       IN  IF n > Len(pMetrics)
           THEN /\ pMetrics' = <<>>
                /\ pPc' = "idle"
           ELSE /\ pMetrics' = SubSeq(pMetrics, 1, n)
                /\ pPc' = "generate"
    /\ UNCHANGED <<gen, genB, sink, pVelocities, pEvents, frameStartNotes,
                   frameStale, uiPc, uiLog>>
    /\ UNCHANGED <<videoVars, trackVars>>

GridNext ==
    \/ P_AnalyzeResize(CoarseMetricValues)
    \/ P_AnalyzeIndex
    \/ P_Generate
    \/ P_PlayCheck
    \/ P_Write
    \/ U_SetGridSize
    \/ U_Flush

SpecGrid == Init /\ [][GridNext]_vars

\* C39: the metric values of a frame and the NoteMap they are matched
\* against come from the same grid: the dict analyze_frame builds has the
\* regions its resize computed, and generate_midi_events finds a note map
\* of as many regions as the frame has metric values.
C39_MetricsAndNoteMapShareGrid ==
    /\ pPc = "index" => gen.grid_width * gen.grid_height = Len(pMetrics)
    /\ pPc = "generate" => Cardinality(DOMAIN gen.note_map) = Len(pMetrics)

\* C39, the second part alone: analyze_frame never indexes past its values.
C39_AnalyzeStaysInBounds ==
    pPc = "index" => gen.grid_width * gen.grid_height <= Len(pMetrics)

\* C39, the first part alone, where the values are matched: a region of the
\* frame's grid is never matched against a note map of another size.
C39_MatchedOnOwnGrid ==
    [][(pPc = "generate" /\ pPc' = "play")
          => Cardinality(DOMAIN gen.note_map) = Len(pMetrics)]_vars

\* C40: whenever is_playing() returns true, a Decoder thread of the session
\* is alive; a play() after the source was exhausted, or after the Decoder
\* ended before the first play(), does not leave the session Playing.
C40_PlayingHasDecoder == is_playing => Alive(decPc)

\* C40, for play() alone: the call itself never makes is_playing() true
\* with the Decoder thread ended.
C40_PlayNeedsDecoder ==
    [][(cPc = "idle" /\ cPc' = "idle" /\ ~_is_playing /\ _is_playing')
          => Alive(decPc')]_vars

====
